---- MODULE Spec2Model ----
(***************************************************************************)
(* A model of simplestream-maintainer (canonical/lxd-imagebuilder): the    *)
(* build command (buildIndex, buildProductCatalog, diffProducts and the    *)
(* scanner of package stream) and the prune command.                       *)
(*                                                                         *)
(* The module holds ten state machines over one set of variables; each    *)
(* specification moves its own variables and leaves the others alone:      *)
(*   SpecPublish  buildIndex: temp files, gzip, the rename loop            *)
(*   SpecPool     buildProductCatalog's worker pool and the cancellation   *)
(*   Spec         buildProductCatalog's two job phases over a disk tree    *)
(*   SpecPrune    pruneStreamProductVersions                               *)
(*   SpecPruneRun the prune command: dangling prune, retention prune and   *)
(*                the sweep of empty directories                           *)
(*   SpecScan     stream.GetProduct: the product's aliases, requirements   *)
(*                and OS name                                              *)
(*   SpecSweep    pruneEmptyDirs on a tree of nested directories           *)
(*   SpecJobs     the two job phases of buildProductCatalog, statement by  *)
(*                statement: the mutex, the maps of the catalog, the       *)
(*                appends to SHA256SUMS                                    *)
(*   SpecJobsLive the same without cancellation, under fair scheduling     *)
(*   SpecNames    the name a delta job gives its file and the delta_base   *)
(*                the scanner reads back from it                           *)
(*   SpecMerge    the products of the catalog with their metadata through  *)
(*                two builds: diffProducts, the merge of lines 685-706,    *)
(*                the new-version jobs and the JSON file in between        *)
(*                                                                         *)
(* Environment failures are the ones the code handles on a path of its own *)
(* and the specification lists: scan errors, checksum mismatches, differ   *)
(* failures, failures of the publishing steps (write, gzip, rename, chmod),*)
(* the failure to remove a pruned directory, and cancellation.             *)
(***************************************************************************)
EXTENDS Naturals, Sequences, FiniteSets, TLC

(***************************************************************************)
(* Bounds of the model.                                                    *)
(***************************************************************************)
MaxBuilds == 2

(***************************************************************************)
(* State. Part 1: buildIndex.                                              *)
(***************************************************************************)
VARIABLES
    metaFiles,      \* streams/<v>/: path -> content
    pc,             \* position of buildIndex
    builds,         \* number of builds started
    streamNames,    \* argument streamNames of the running build
    streamIdx,      \* position of the loop over streamNames
    catalog,        \* product IDs of the catalog buildProductCatalog returned
    index,          \* stream.StreamIndex.Index under construction
    replaces,       \* []replace
    replIdx,        \* position of the loop over replaces
    defers,         \* paths registered with defer os.Remove
    ctxDone,        \* ctx.Done() is closed
    renamed,        \* history: NewPath of each successful os.Rename of this run
    chmodded,       \* history: paths of this run whose os.Chmod succeeded
    cancelEarly,    \* history: the context was cancelled before the rename loop
    lastErr         \* result of the last buildIndex call: "none", "nil", "err"

publishVars == <<metaFiles, pc, builds, streamNames, streamIdx, catalog, index, replaces, replIdx, defers, ctxDone, renamed, chmodded, cancelEarly, lastErr>>

(***************************************************************************)
(* State. Part 2: the worker pool of buildProductCatalog.                  *)
(***************************************************************************)
VARIABLES
    workers,        \* argument workers
    toSubmit,       \* <<jobs phase 1 still has to submit, same for phase 2>>
    orchPc,         \* position of buildProductCatalog
    jobs,           \* number of jobs buffered in the channel jobs
    jobsClosed,     \* close(jobs) has run
    wg,             \* counter of the sync.WaitGroup
    workerPc,       \* per worker goroutine: "select", "job", "exited"
    poolCtxDone     \* ctx.Done() is closed

poolVars == <<workers, toSubmit, orchPc, jobs, jobsClosed, wg, workerPc, poolCtxDone>>

(***************************************************************************)
(* State. Part 3: the repository tree and buildProductCatalog.             *)
(***************************************************************************)
VARIABLES
    disk,           \* <stream>/: product ID -> version name -> directory
    published,      \* streams/<v>/<stream>.json as last published
    catProducts,    \* catalog.Products of the running buildProductCatalog
    bpc,            \* position of the build: "idle", "scanerr", "phase1", "phase2", "built"
    jobs1,          \* new-version jobs submitted and not yet run
    jobs2,          \* delta jobs submitted and not yet run
    nbuilds,        \* number of builds started
    nuploads,       \* number of version directories uploaded
    nremovals,      \* number of version directories removed
    p1log,          \* history: the new-version jobs this build has run
    generated,      \* history: the delta files this build has generated
    differFailed,   \* history: an xdelta3 run of this build failed
    settled         \* history: the last build published without a differ failure
                    \* and no directory was uploaded or removed since

buildVars == <<disk, published, catProducts, bpc, jobs1, jobs2, nbuilds, nuploads, nremovals, p1log, generated, differFailed, settled>>

(***************************************************************************)
(* State. Part 4: pruneStreamProductVersions.                              *)
(***************************************************************************)
VARIABLES
    ppc,            \* position of the prune
    retain,         \* the retain argument
    pcat,           \* catalog.Products of the prune, as it will be written
    discardVersions,\* the collected version directories, <<product, version>>
    discIdx,        \* index of the next directory to remove
    tmpFile,        \* the temporary file of WriteJSONTempFile
    pruneErr,       \* the step that made the prune return an error
    disk0,          \* history: the tree before the prune
    published0,     \* history: <stream>.json before the prune
    removeFailed    \* history: the directories whose os.RemoveAll failed

pruneVars == <<ppc, retain, pcat, discardVersions, discIdx, tmpFile, pruneErr, disk0, published0, removeFailed>>

(***************************************************************************)
(* State. Part 5: one run of the prune command.                            *)
(***************************************************************************)
VARIABLES
    rpc,            \* position of Run: "start", "dangling", "retention", "done", "failed"
    dangling,       \* o.Dangling
    stale,          \* the directories whose mtime is more than 6 hours ago
    dtodo,          \* the paths the loop of the dangling prune has still to visit
    derr,           \* result of pruneDanglingProductVersions: "none", "nil", "err"
    catalogGz       \* streams/<v>/<stream>.json.gz

runVars == <<rpc, dangling, stale, dtodo, derr, catalogGz>>

(***************************************************************************)
(* State. Part 6: stream.GetProduct on one product directory.              *)
(***************************************************************************)
VARIABLES
    spc,            \* "ready", "done"
    sparts,         \* the distro, release, architecture and variant of the path
    sdirs,          \* version directory name -> what GetVersion finds in it
    sinclude,       \* the option includeIncomplete
    sproduct        \* the Product that GetProduct returned

scanVars == <<spc, sparts, sdirs, sinclude, sproduct>>

(***************************************************************************)
(* State. Part 7: pruneEmptyDirs on a tree of nested directories.          *)
(***************************************************************************)
VARIABLES
    wpc,            \* "ready", "done"
    tree,           \* the directories and the files below the temporary root
    baseDir,        \* the path argument, as the caller wrote it
    rmFail,         \* the directories on which os.Remove fails
    swept,          \* the tree after the call
    sweepErr        \* the error the call returned, "" for nil

sweepVars == <<wpc, tree, baseDir, rmFail, swept, sweepErr>>

(***************************************************************************)
(* State. Part 8: the job phases of buildProductCatalog for one product.   *)
(***************************************************************************)
VARIABLES
    jpc,            \* position of buildProductCatalog
    jworkers,       \* argument workers
    jjobs,          \* the channel jobs: the jobs buffered in it, oldest first
    jclosed,        \* close(jobs) has run
    jwg,            \* counter of the sync.WaitGroup
    jmutex,         \* holder of the mutex: JFree, JOrch or a worker
    jthr,           \* per worker goroutine: its position and its job
    jctx,           \* ctx.Done() is closed
    jcrashed,       \* the runtime has stopped the process with a fatal error
    jtodo,          \* what the running range loop has still to visit
    jtargets,       \* the target versions phase 2 has still to visit
    jdisk,          \* the version directories of the product
    jitemset,       \* the item types each version holds besides the metadata
    jhasSums,       \* the versions have a SHA256SUMS file
    jversions,      \* keys of catalog.Products[id].Versions
    jitems,         \* version -> item types whose delta is a key of Items
    jsums,          \* version -> item types whose delta is a key of Checksums
    jstat           \* history: submitted job -> times started, finished

jobVars == <<jpc, jworkers, jjobs, jclosed, jwg, jmutex, jthr, jctx, jcrashed, jtodo, jtargets, jdisk, jitemset, jhasSums, jversions, jitems, jsums, jstat>>

(***************************************************************************)
(* State. Part 9: the name of a delta file and its delta_base.             *)
(***************************************************************************)
VARIABLES
    npc,         \* position: the name is computed, then the file is read back
    nItemName,   \* name of the item the delta is for, as dot segments
    nSourceVer,  \* name of the source version, as dot segments
    nDeltaName,  \* the deltaName of line 799, as dot segments
    nDeltaBase   \* the DeltaBase stream.GetItem records

nameVars == <<npc, nItemName, nSourceVer, nDeltaName, nDeltaBase>>

(***************************************************************************)
(* State. Part 10: products with their metadata through two builds.        *)
(***************************************************************************)
VARIABLES
    mpc,        \* position of the build
    mfile,      \* <stream>.json: the published products
    mscan,      \* the products stream.GetProducts returns in this build
    mloaded,    \* history: catalog.Products as read from <stream>.json
    madded,     \* newProducts, the second result of diffProducts
    mcatalog,   \* catalog.Products
    mjobs,      \* the new-version jobs not yet run
    mrejected,  \* history: the versions whose job did not add them
    mpanic,     \* the process died on an assignment to an entry of a nil map
    mbuilds     \* number of builds started

mergeVars == <<mpc, mfile, mscan, mloaded, madded, mcatalog, mjobs, mrejected, mpanic, mbuilds>>

buildOnlyVars == <<catProducts, bpc, jobs1, jobs2, nbuilds, nuploads, nremovals, p1log, generated, differFailed, settled>>

vars == <<publishVars, poolVars, buildVars, pruneVars, runVars, scanVars, sweepVars, jobVars, nameVars, mergeVars>>

\* What the actions of a part leave alone.
notPublish == <<poolVars, buildVars, pruneVars, runVars, scanVars, sweepVars, jobVars, nameVars, mergeVars>>

notPool == <<publishVars, buildVars, pruneVars, runVars, scanVars, sweepVars, jobVars, nameVars, mergeVars>>

notBuild == <<publishVars, poolVars, pruneVars, runVars, scanVars, sweepVars, jobVars, nameVars, mergeVars>>

notPrune == <<publishVars, poolVars, buildOnlyVars, runVars, scanVars, sweepVars, jobVars, nameVars, mergeVars>>

notRun == <<publishVars, poolVars, buildOnlyVars, scanVars, sweepVars, jobVars, nameVars, mergeVars>>

notScan == <<publishVars, poolVars, buildVars, pruneVars, runVars, sweepVars, jobVars, nameVars, mergeVars>>

notSweep == <<publishVars, poolVars, buildVars, pruneVars, runVars, scanVars, jobVars, nameVars, mergeVars>>

notJobs == <<publishVars, poolVars, buildVars, pruneVars, runVars, scanVars, sweepVars, nameVars, mergeVars>>

notNames == <<publishVars, poolVars, buildVars, pruneVars, runVars, scanVars, sweepVars, jobVars, mergeVars>>

notMerge == <<publishVars, poolVars, buildVars, pruneVars, runVars, scanVars, sweepVars, jobVars, nameVars>>

(***************************************************************************)
(* Generic helpers.                                                        *)
(***************************************************************************)
Range(f) == {f[i] : i \in DOMAIN f}

\* Position of the first occurrence of e in sequence s, 0 when absent.
IndexOf(s, e) == IF e \in Range(s) THEN CHOOSE i \in 1..Len(s) : s[i] = e /\ \A j \in 1..(i-1) : s[j] # e ELSE 0

(***************************************************************************)
(*                         PART 1: buildIndex                              *)
(* cmd_build.go 499-626 with stream.NewStreamIndex / StreamIndex.AddEntry. *)
(* A catalog is abstracted to the set of its product IDs (the keys of      *)
(* catalog.Products); that is all AddEntry reads.                          *)
(***************************************************************************)
ProductIDs == {"ubuntu:noble:amd64:cloud", "alpine:edge:amd64:default"}

\* The values of o.ImageDirs a build is started with.
StreamLists == {<<"images">>, <<"daily">>, <<"images", "daily">>}

AllStreams == {"images", "daily"}

\* filepath.Join(metaDir, fmt.Sprintf("%s.json", streamName)), relative to metaDir
CatalogPath(s) == s \o ".json"

\* filepath.Join(metaDir, fmt.Sprintf(".%s.json.tmp", streamName))
CatalogPathTemp(s) == "." \o s \o ".json.tmp"

\* fmt.Sprintf("%s.gz", path)
GzPath(p) == p \o ".gz"

IndexPath == "index.json"

IndexPathTemp == ".index.json.tmp"

FinalPaths == {CatalogPath(s) : s \in AllStreams} \cup {GzPath(CatalogPath(s)) : s \in AllStreams} \cup {IndexPath, GzPath(IndexPath)}

TempPaths == {CatalogPathTemp(s) : s \in AllStreams} \cup {GzPath(CatalogPathTemp(s)) : s \in AllStreams} \cup {IndexPathTemp, GzPath(IndexPathTemp)}

MetaPaths == FinalPaths \cup TempPaths

\* File contents in the metadata directory.
Absent == [kind |-> "absent"]

Partial == [kind |-> "partial"]

CatalogJSON(products) == [kind |-> "catalog", products |-> products]

IndexJSON(idx) == [kind |-> "index", index |-> idx]

GZip(content) == [kind |-> "gz", of |-> content]


\* stream.NewStreamIndex: an index with no entry
NewStreamIndex == [s \in {} |-> {}]

\* StreamIndex.AddEntry: the entry lists the keys of catalog.Products
AddEntry(idx, streamName, catalogPath, cat) == [s \in (DOMAIN idx) \cup {streamName} |-> IF s = streamName THEN [path |-> catalogPath, products |-> cat] ELSE idx[s]]

\* shared.ReadJSONFile of <stream>.json in buildProductCatalog: a missing file
\* gives an empty catalog
ReadCatalogProducts(s) == IF metaFiles[CatalogPath(s)].kind = "catalog" THEN metaFiles[CatalogPath(s)].products ELSE {}

\* The keys of catalog.Products after the loop over newProducts (cmd_build.go
\* 685-706): every key of the loaded catalog and every scanned product.
CatalogKeysAfterBuild(old, scanned) == old \cup scanned

\* The deferred os.Remove calls run when buildIndex returns.
RunDefers(files) == [p \in MetaPaths |-> IF p \in defers THEN Absent ELSE files[p]]

\* buildIndex returns err (or nil): deferred removes run, the command ends.
Return(files, err) ==
    /\ metaFiles' = RunDefers(files)
    /\ pc' = "idle"
    /\ lastErr' = err

InitPublish ==
    /\ metaFiles = [p \in MetaPaths |-> Absent]
    /\ pc = "idle"
    /\ builds = 0
    /\ streamNames = <<>>
    /\ streamIdx = 0
    /\ catalog = {}
    /\ index = NewStreamIndex
    /\ replaces = <<>>
    /\ replIdx = 0
    /\ defers = {}
    /\ ctxDone = FALSE
    /\ renamed = <<>>
    /\ chmodded = {}
    /\ cancelEarly = FALSE
    /\ lastErr = "none"

\* buildIndex is entered: os.MkdirAll succeeded (cmd_build.go 499-513).
BuildIndexStart ==
    /\ UNCHANGED notPublish
    /\ pc = "idle"
    /\ builds < MaxBuilds
    /\ \E names \in StreamLists : streamNames' = names
    /\ builds' = builds + 1
    /\ pc' = "catalog"
    /\ streamIdx' = 1
    /\ catalog' = {}
    /\ index' = NewStreamIndex
    /\ replaces' = <<>>
    /\ replIdx' = 0
    /\ defers' = {}
    /\ ctxDone' = FALSE
    /\ renamed' = <<>>
    /\ chmodded' = {}
    /\ cancelEarly' = FALSE
    /\ lastErr' = "none"
    /\ UNCHANGED metaFiles

\* The signal or the timeout fires (main.go 61-70).
Cancel ==
    /\ UNCHANGED notPublish
    /\ pc \notin {"idle", "blocked"}
    /\ ~ctxDone
    /\ ctxDone' = TRUE
    /\ cancelEarly' = (pc \notin {"rename", "chmod"})
    /\ UNCHANGED <<metaFiles, pc, builds, streamNames, streamIdx, catalog, index, replaces, replIdx, defers, renamed, chmodded, lastErr>>

\* buildProductCatalog returns a catalog (cmd_build.go 518, 635-880). It has no
\* check of ctx on its way out: it returns whenever both wg.Wait() return.
BuildCatalogOk ==
    /\ UNCHANGED notPublish
    /\ pc = "catalog"
    /\ \E scanned \in SUBSET ProductIDs : catalog' = CatalogKeysAfterBuild(ReadCatalogProducts(streamNames[streamIdx]), scanned)
    /\ pc' = "writeCatalog"
    /\ UNCHANGED <<metaFiles, builds, streamNames, streamIdx, index, replaces, replIdx, defers, ctxDone, renamed, chmodded, cancelEarly, lastErr>>

\* buildProductCatalog returns an error (reading the catalog or scanning).
BuildCatalogErr ==
    /\ UNCHANGED notPublish
    /\ pc = "catalog"
    /\ Return(metaFiles, "err")
    /\ UNCHANGED <<builds, streamNames, streamIdx, catalog, index, replaces, replIdx, defers, ctxDone, renamed, chmodded, cancelEarly>>

\* After cancellation the workers are gone: buildProductCatalog may never
\* return (a send on the full jobs channel or wg.Wait(), see SpecPool).
BuildCatalogBlocked ==
    /\ UNCHANGED notPublish
    /\ pc = "catalog"
    /\ ctxDone
    /\ pc' = "blocked"
    /\ UNCHANGED <<metaFiles, builds, streamNames, streamIdx, catalog, index, replaces, replIdx, defers, ctxDone, renamed, chmodded, cancelEarly, lastErr>>

\* shared.WriteJSONFile(catalogPathTemp, catalog); defer os.Remove (526-534)
WriteCatalogTemp ==
    /\ UNCHANGED notPublish
    /\ pc = "writeCatalog"
    /\ LET tmp == CatalogPathTemp(streamNames[streamIdx]) IN
        /\ metaFiles' = [metaFiles EXCEPT ![tmp] = CatalogJSON(catalog)]
        /\ defers' = defers \cup {tmp}
    /\ pc' = "gzipCatalog"
    /\ UNCHANGED <<builds, streamNames, streamIdx, catalog, index, replaces, replIdx, ctxDone, renamed, chmodded, cancelEarly, lastErr>>

\* WriteJSONFile fails: os.Create failed (no file) or Encode failed (a partial
\* file); the defer for this path is not registered yet.
WriteCatalogTempFail ==
    /\ UNCHANGED notPublish
    /\ pc = "writeCatalog"
    /\ \E left \in {Absent, Partial} : Return([metaFiles EXCEPT ![CatalogPathTemp(streamNames[streamIdx])] = left], "err")
    /\ UNCHANGED <<builds, streamNames, streamIdx, catalog, index, replaces, replIdx, defers, ctxDone, renamed, chmodded, cancelEarly>>

\* shared.GZipFile; defer os.Remove; replaces = append(...); index.AddEntry
\* (536-568)
GZipCatalogTemp ==
    /\ UNCHANGED notPublish
    /\ pc = "gzipCatalog"
    /\ LET s == streamNames[streamIdx]
           tmp == CatalogPathTemp(s)
           gz == GzPath(tmp)
       IN
        /\ metaFiles' = [metaFiles EXCEPT ![gz] = GZip(metaFiles[tmp])]
        /\ defers' = defers \cup {gz}
        /\ replaces' = replaces \o << [OldPath |-> tmp, NewPath |-> CatalogPath(s)], [OldPath |-> gz, NewPath |-> GzPath(CatalogPath(s))] >>
        /\ index' = AddEntry(index, s, CatalogPath(s), catalog)
    /\ IF streamIdx < Len(streamNames)
       THEN /\ streamIdx' = streamIdx + 1
            /\ pc' = "catalog"
       ELSE /\ streamIdx' = streamIdx
            /\ pc' = "writeIndex"
    /\ UNCHANGED <<builds, streamNames, catalog, replIdx, ctxDone, renamed, chmodded, cancelEarly, lastErr>>

GZipCatalogTempFail ==
    /\ UNCHANGED notPublish
    /\ pc = "gzipCatalog"
    /\ \E left \in {Absent, Partial} : Return([metaFiles EXCEPT ![GzPath(CatalogPathTemp(streamNames[streamIdx]))] = left], "err")
    /\ UNCHANGED <<builds, streamNames, streamIdx, catalog, index, replaces, replIdx, defers, ctxDone, renamed, chmodded, cancelEarly>>

\* shared.WriteJSONFile(indexPathTemp, index); defer os.Remove (574-582)
WriteIndexTemp ==
    /\ UNCHANGED notPublish
    /\ pc = "writeIndex"
    /\ metaFiles' = [metaFiles EXCEPT ![IndexPathTemp] = IndexJSON(index)]
    /\ defers' = defers \cup {IndexPathTemp}
    /\ pc' = "gzipIndex"
    /\ UNCHANGED <<builds, streamNames, streamIdx, catalog, index, replaces, replIdx, ctxDone, renamed, chmodded, cancelEarly, lastErr>>

\* Lines 578-581 with the error of WriteJSONFile dropped: the rename loop
\* starts with the replaces appended so far.
WriteIndexTempFailIgnored ==
    /\ UNCHANGED notPublish
    /\ pc = "writeIndex"
    /\ metaFiles' = [metaFiles EXCEPT ![IndexPathTemp] = Partial]
    /\ replIdx' = 1
    /\ pc' = "rename"
    /\ UNCHANGED <<builds, streamNames, streamIdx, catalog, index, replaces, defers, ctxDone, renamed, chmodded, cancelEarly, lastErr>>

WriteIndexTempFail ==
    /\ UNCHANGED notPublish
    /\ pc = "writeIndex"
    /\ \E left \in {Absent, Partial} : Return([metaFiles EXCEPT ![IndexPathTemp] = left], "err")
    /\ UNCHANGED <<builds, streamNames, streamIdx, catalog, index, replaces, replIdx, defers, ctxDone, renamed, chmodded, cancelEarly>>

\* The order in which the two index replaces are appended (598-601).
IndexReplaces == << [OldPath |-> IndexPathTemp, NewPath |-> IndexPath], [OldPath |-> GzPath(IndexPathTemp), NewPath |-> GzPath(IndexPath)] >>

\* Lines 598-601 with the index replaces put in front of the catalog ones.
AppendIndexReplacesFirst(rs) == IndexReplaces \o rs

\* Where buildIndex puts the index replaces relative to the catalog ones:
\* appended after them.
AppendIndexReplaces(rs) == rs \o IndexReplaces

\* shared.GZipFile(indexPathTemp, ...); defer; replaces = append(...) (585-601)
GZipIndexTemp ==
    /\ UNCHANGED notPublish
    /\ pc = "gzipIndex"
    /\ metaFiles' = [metaFiles EXCEPT ![GzPath(IndexPathTemp)] = GZip(metaFiles[IndexPathTemp])]
    /\ defers' = defers \cup {GzPath(IndexPathTemp)}
    /\ replaces' = AppendIndexReplaces(replaces)
    /\ replIdx' = 1
    /\ pc' = "rename"
    /\ UNCHANGED <<builds, streamNames, streamIdx, catalog, index, ctxDone, renamed, chmodded, cancelEarly, lastErr>>

GZipIndexTempFail ==
    /\ UNCHANGED notPublish
    /\ pc = "gzipIndex"
    /\ \E left \in {Absent, Partial} : Return([metaFiles EXCEPT ![GzPath(IndexPathTemp)] = left], "err")
    /\ UNCHANGED <<builds, streamNames, streamIdx, catalog, index, replaces, replIdx, defers, ctxDone, renamed, chmodded, cancelEarly>>

\* os.Rename(r.OldPath, r.NewPath) (604-608)
Rename ==
    /\ UNCHANGED notPublish
    /\ pc = "rename"
    /\ LET r == replaces[replIdx] IN
        /\ metaFiles' = [metaFiles EXCEPT ![r.NewPath] = metaFiles[r.OldPath], ![r.OldPath] = Absent]
        /\ renamed' = Append(renamed, r.NewPath)
    /\ pc' = "chmod"
    /\ UNCHANGED <<builds, streamNames, streamIdx, catalog, index, replaces, replIdx, defers, ctxDone, chmodded, cancelEarly, lastErr>>

RenameFail ==
    /\ UNCHANGED notPublish
    /\ pc = "rename"
    /\ Return(metaFiles, "err")
    /\ UNCHANGED <<builds, streamNames, streamIdx, catalog, index, replaces, replIdx, defers, ctxDone, renamed, chmodded, cancelEarly>>

\* os.Chmod(r.NewPath, 0644), then the next replace or return nil (610-625)
Chmod ==
    /\ UNCHANGED notPublish
    /\ pc = "chmod"
    /\ chmodded' = chmodded \cup {replaces[replIdx].NewPath}
    /\ IF replIdx < Len(replaces)
       THEN /\ replIdx' = replIdx + 1
            /\ pc' = "rename"
            /\ UNCHANGED <<metaFiles, lastErr>>
       ELSE /\ replIdx' = replIdx
            /\ Return(metaFiles, "nil")
    /\ UNCHANGED <<builds, streamNames, streamIdx, catalog, index, replaces, defers, ctxDone, renamed, cancelEarly>>

\* Lines 611-614 with the error of os.Chmod dropped: the loop goes on.
ChmodFailIgnored ==
    /\ UNCHANGED notPublish
    /\ pc = "chmod"
    /\ replIdx < Len(replaces)
    /\ replIdx' = replIdx + 1
    /\ pc' = "rename"
    /\ UNCHANGED <<metaFiles, builds, streamNames, streamIdx, catalog, index, replaces, defers, ctxDone, renamed, chmodded, cancelEarly, lastErr>>

ChmodFail ==
    /\ UNCHANGED notPublish
    /\ pc = "chmod"
    /\ Return(metaFiles, "err")
    /\ UNCHANGED <<builds, streamNames, streamIdx, catalog, index, replaces, replIdx, defers, ctxDone, renamed, chmodded, cancelEarly>>

NextPublish ==
    \/ BuildIndexStart
    \/ Cancel
    \/ BuildCatalogOk
    \/ BuildCatalogErr
    \/ BuildCatalogBlocked
    \/ WriteCatalogTemp
    \/ WriteCatalogTempFail
    \/ GZipCatalogTemp
    \/ GZipCatalogTempFail
    \/ WriteIndexTemp
    \/ WriteIndexTempFail
    \/ GZipIndexTemp
    \/ GZipIndexTempFail
    \/ Rename
    \/ RenameFail
    \/ Chmod
    \/ ChmodFail

(***************************************************************************)
(* Claims about buildIndex.                                                *)
(***************************************************************************)

\* C1: in every state while build publishes and after it returns (also after
\* an abort at a rename or chmod step), every entry of the published
\* index.json points to a catalog file that exists at its final name, and
\* every product ID the entry lists is a key of that published catalog.
C1_IndexReferencesPublishedCatalogs ==
    metaFiles[IndexPath].kind = "index" =>
        \A s \in DOMAIN metaFiles[IndexPath].index :
            LET entry == metaFiles[IndexPath].index[s] IN
                /\ metaFiles[entry.path].kind = "catalog"
                /\ entry.products \subseteq metaFiles[entry.path].products

\* A second build was aborted after it had renamed a catalog that lists more
\* products than the index published by the first build.
C1_Witness ==
    /\ builds = 2
    /\ lastErr = "err"
    /\ Len(renamed) >= 1
    /\ metaFiles[IndexPath].kind = "index"
    /\ \E s \in DOMAIN metaFiles[IndexPath].index :
        LET entry == metaFiles[IndexPath].index[s] IN
            /\ entry.products # {}
            /\ metaFiles[entry.path].kind = "catalog"
            /\ entry.products # metaFiles[entry.path].products

\* C2: the rename of every <stream>.json and <stream>.json.gz happens before
\* the rename of index.json and index.json.gz, for one stream and for two; if
\* a catalog rename or chmod fails, neither index file is renamed.
C2_CatalogsRenamedBeforeIndex ==
    \A i \in 1..Len(renamed) :
        renamed[i] \in {IndexPath, GzPath(IndexPath)} =>
            \A k \in 1..Len(streamNames) :
                \A f \in {CatalogPath(streamNames[k]), GzPath(CatalogPath(streamNames[k]))} :
                    /\ \E j \in 1..(i-1) : renamed[j] = f
                    /\ f \in chmodded

\* A build of two streams has renamed all six files and returned nil.
C2_Witness ==
    /\ Len(streamNames) = 2
    /\ lastErr = "nil"
    /\ Len(renamed) = 6
    /\ renamed[5] = IndexPath

\* The temporary catalog and .gz of every stream and the temporary index and
\* its .gz have been written: replaces names them all, and each one not yet
\* renamed holds what was written.
AllTempsWritten ==
    /\ Len(replaces) = 2 * Len(streamNames) + 2
    /\ \A k \in 1..Len(streamNames) :
        /\ replaces[2 * k - 1].OldPath = CatalogPathTemp(streamNames[k])
        /\ replaces[2 * k].OldPath = GzPath(CatalogPathTemp(streamNames[k]))
    /\ {replaces[k].OldPath : k \in (Len(replaces) - 1)..Len(replaces)} = {IndexPathTemp, GzPath(IndexPathTemp)}
    /\ \A k \in replIdx..Len(replaces) :
        metaFiles[replaces[k].OldPath].kind \in {"catalog", "index", "gz"}

\* C21: a file with a final name (<stream>.json, <stream>.json.gz,
\* index.json, index.json.gz) changes only in a step of the rename loop, and
\* only when every temporary file of the build has been written; so a build
\* that fails while it builds a catalog or writes a temporary file leaves
\* every published file as it was.
C21_FinalFilesChangeOnlyAfterAllTemps ==
    [][(\E f \in FinalPaths : metaFiles'[f] # metaFiles[f]) => (pc = "rename" /\ AllTempsWritten)]_vars

\* A second build wrote the temporary files of its first stream, then failed
\* before the rename loop and returned the error, with the files of the first
\* build published.
C21_Witness ==
    /\ builds = 2
    /\ lastErr = "err"
    /\ replIdx = 0
    /\ Len(replaces) >= 2
    /\ metaFiles[IndexPath].kind = "index"
    /\ metaFiles[GzPath(IndexPath)].kind = "gz"

\* C7: if the cancellation signal fires during a build before the renames
\* begin, no file is renamed to its final name.
C7_NoPublishAfterCancel == cancelEarly => renamed = <<>>

\* C34: when buildIndex returns an error, none of the temporary files it
\* created is left in the metadata directory. In the first run of the
\* command every temporary file there was created by this run.
C34_NoTempLeftAfterError ==
    (pc = "idle" /\ lastErr = "err" /\ builds = 1)
        => \A t \in TempPaths : metaFiles[t] = Absent

(***************************************************************************)
(*                 PART 2: the worker pool of buildProductCatalog          *)
(* cmd_build.go 653-681 (pool), 708-711 and 787-788 (submission), 754 and  *)
(* 877 (wg.Wait), 663 (defer close(jobs)). Jobs are opaque here: a job     *)
(* runs, possibly cut short by the kill of its xdelta3 process, and calls  *)
(* wg.Done().                                                              *)
(***************************************************************************)
MaxWorkers == 2

MaxJobs == 2


\* if workers < 1 { workers = 1 } (656-659)
NumWorkers(w) == IF w < 1 THEN 1 ELSE w

\* make(chan func(), workers): the capacity of the channel
JobsCap == NumWorkers(workers)

Phase == IF orchPc \in {"add1", "send1", "wait1"} THEN 1 ELSE 2

InitPool ==
    /\ workers \in 0..MaxWorkers
    /\ toSubmit \in (0..MaxJobs) \X (0..MaxJobs)
    /\ orchPc = "add1"
    /\ jobs = 0
    /\ jobsClosed = FALSE
    /\ wg = 0
    /\ workerPc = [w \in 1..NumWorkers(workers) |-> "select"]
    /\ poolCtxDone = FALSE

PoolCancel ==
    /\ UNCHANGED notPool
    /\ orchPc # "returned"
    /\ ~poolCtxDone
    /\ poolCtxDone' = TRUE
    /\ UNCHANGED <<workers, toSubmit, orchPc, jobs, jobsClosed, wg, workerPc>>

\* wg.Add(1) of the next job of the running phase (710, 787)
OrchAdd ==
    /\ UNCHANGED notPool
    /\ orchPc \in {"add1", "add2"}
    /\ toSubmit[Phase] > 0
    /\ wg' = wg + 1
    /\ orchPc' = IF Phase = 1 THEN "send1" ELSE "send2"
    /\ UNCHANGED <<workers, toSubmit, jobs, jobsClosed, workerPc, poolCtxDone>>

\* jobs <- func() {...}: blocks while the buffer is full (711, 788)
OrchSend ==
    /\ UNCHANGED notPool
    /\ orchPc \in {"send1", "send2"}
    /\ jobs < JobsCap
    /\ jobs' = jobs + 1
    /\ toSubmit' = [toSubmit EXCEPT ![Phase] = @ - 1]
    /\ orchPc' = IF Phase = 1 THEN "add1" ELSE "add2"
    /\ UNCHANGED <<workers, jobsClosed, wg, workerPc, poolCtxDone>>

\* The submission loop of a phase is over: the orchestrator reaches wg.Wait().
OrchLoopEnd ==
    /\ UNCHANGED notPool
    /\ orchPc \in {"add1", "add2"}
    /\ toSubmit[Phase] = 0
    /\ orchPc' = IF Phase = 1 THEN "wait1" ELSE "wait2"
    /\ UNCHANGED <<workers, toSubmit, jobs, jobsClosed, wg, workerPc, poolCtxDone>>

\* wg.Wait() returns (754): phase 2 starts.
OrchWait1 ==
    /\ UNCHANGED notPool
    /\ orchPc = "wait1"
    /\ wg = 0
    /\ orchPc' = "add2"
    /\ UNCHANGED <<workers, toSubmit, jobs, jobsClosed, wg, workerPc, poolCtxDone>>

\* wg.Wait() returns (877); return catalog, nil; the deferred close(jobs) runs.
OrchReturn ==
    /\ UNCHANGED notPool
    /\ orchPc = "wait2"
    /\ wg = 0
    /\ orchPc' = "returned"
    /\ jobsClosed' = TRUE
    /\ UNCHANGED <<workers, toSubmit, jobs, wg, workerPc, poolCtxDone>>

\* select: case <-ctx.Done(): return (670-671)
WorkerCtxDone(w) ==
    /\ UNCHANGED notPool
    /\ workerPc[w] = "select"
    /\ poolCtxDone
    /\ workerPc' = [workerPc EXCEPT ![w] = "exited"]
    /\ UNCHANGED <<workers, toSubmit, orchPc, jobs, jobsClosed, wg, poolCtxDone>>

\* select: case job, ok := <-jobs with ok (672, 677): the job starts.
WorkerTake(w) ==
    /\ UNCHANGED notPool
    /\ workerPc[w] = "select"
    /\ jobs > 0
    /\ jobs' = jobs - 1
    /\ workerPc' = [workerPc EXCEPT ![w] = "job"]
    /\ UNCHANGED <<workers, toSubmit, orchPc, jobsClosed, wg, poolCtxDone>>

\* select: case job, ok := <-jobs with !ok: the channel is closed and empty.
WorkerClosed(w) ==
    /\ UNCHANGED notPool
    /\ workerPc[w] = "select"
    /\ jobsClosed
    /\ jobs = 0
    /\ workerPc' = [workerPc EXCEPT ![w] = "exited"]
    /\ UNCHANGED <<workers, toSubmit, orchPc, jobs, jobsClosed, wg, poolCtxDone>>

\* job() returns: its deferred wg.Done() runs (712, 789).
WorkerJobDone(w) ==
    /\ UNCHANGED notPool
    /\ workerPc[w] = "job"
    /\ wg' = wg - 1
    /\ workerPc' = [workerPc EXCEPT ![w] = "select"]
    /\ UNCHANGED <<workers, toSubmit, orchPc, jobs, jobsClosed, poolCtxDone>>

NextPool ==
    \/ PoolCancel
    \/ OrchAdd
    \/ OrchSend
    \/ OrchLoopEnd
    \/ OrchWait1
    \/ OrchReturn
    \/ \E w \in DOMAIN workerPc : WorkerCtxDone(w)
    \/ \E w \in DOMAIN workerPc : WorkerTake(w)
    \/ \E w \in DOMAIN workerPc : WorkerClosed(w)
    \/ \E w \in DOMAIN workerPc : WorkerJobDone(w)

AllWorkersExited == \A w \in DOMAIN workerPc : workerPc[w] = "exited"

\* The orchestrator waits for something only a worker can do, and no worker
\* is left: from here no step of the orchestrator is ever enabled again.
BlockedForever ==
    /\ AllWorkersExited
    /\ \/ orchPc \in {"send1", "send2"} /\ jobs = JobsCap
       \/ orchPc \in {"wait1", "wait2"} /\ wg > 0

\* C8: if the cancellation signal fires while buildProductCatalog submits
\* jobs or waits for them, the orchestrator never blocks forever on a send to
\* the full job channel or on the wait counter after all workers have exited.
C8_NeverBlockedForever == ~BlockedForever

\* buildProductCatalog has returned although the context was cancelled before
\* it returned: what BuildCatalogOk of part 1 allows with ctxDone.
ReturnedAfterCancel == orchPc = "returned" /\ poolCtxDone

(***************************************************************************)
(*                    PART 3: buildProductCatalog                          *)
(* cmd_build.go 628-919 over the stream package's directory scanner        *)
(* (stream/index.go 304-651).                                              *)
(*                                                                         *)
(* A file name is the sequence of its dot-separated segments, so that      *)
(* "disk.v1.qcow2.vcdiff" is <<"disk", "v1", "qcow2", "vcdiff">>; a file   *)
(* is its content; a version directory holds item files and, separately,   *)
(* the lines of its SHA256SUMS file, each line already split into          *)
(* <<checksum, filename>> (malformed lines are skipped by the reader and   *)
(* are not represented).                                                   *)
(***************************************************************************)
MaxUploads == 3

MaxRemovals == 1

\* Version directory names with their byte-wise order (slices.Sort).
VersionOrder == <<".v0", "v1", "v2", "v3">>

VersionNames == Range(VersionOrder)

\* Lines 472-476 without the test of the name: no version counts as hidden.
IsHiddenNever(v) == FALSE

\* strings.HasPrefix(filepath.Base(versionPath), "."), tabulated on VersionNames.
IsHidden(v) == v \in {".v0"}

\* slices.Sort of a set of version names.
SortVersions(S) == SelectSeq(VersionOrder, LAMBDA v : v \in S)

ItemTypeMetadata == "lxd.tar.xz"

ItemTypeSquashfs == "squashfs"

ItemTypeSquashfsDelta == "squashfs.vcdiff"

ItemTypeDiskKVM == "disk-kvm.img"

ItemTypeDiskKVMDelta == "disk-kvm.img.vcdiff"

ItemTypeRootTarXz == "root.tar.xz"

ItemExtMetadata == <<"tar", "xz">>

ItemExtSquashfs == <<"squashfs">>

ItemExtSquashfsDelta == <<"vcdiff">>

ItemExtDiskKVM == <<"qcow2">>

ItemExtDiskKVMDelta == <<"qcow2", "vcdiff">>

allowedItemExtensions == {ItemExtMetadata, ItemExtSquashfs, ItemExtSquashfsDelta, ItemExtDiskKVM, ItemExtDiskKVMDelta}

\* The name of the metadata file, the key version.Items[ItemTypeMetadata].
MetadataName == <<"lxd", "tar", "xz">>

\* strings.Join(segments, "."): the file name as one string.
RECURSIVE JoinDots(_)
JoinDots(name) ==
    IF Len(name) = 0 THEN ""
    ELSE IF Len(name) = 1 THEN name[1]
    ELSE name[1] \o "." \o JoinDots(Tail(name))

\* strings.HasSuffix(name, "." + ext) for one extension.
HasSuffixExt(name, ext) ==
    /\ Len(name) > Len(ext)
    /\ SubSeq(name, Len(name) - Len(ext) + 1, Len(name)) = ext

\* shared.HasSuffix(name, suffixes...)
HasSuffix(name, exts) == \E ext \in exts : HasSuffixExt(name, ext)

\* filepath.Ext: the last segment when the name has a dot.
Ext(name) == IF Len(name) > 1 THEN <<name[Len(name)]>> ELSE <<>>

\* shared.FileHash over the given file contents, in order.
RECURSIVE Concat(_)
Concat(contents) == IF contents = <<>> THEN "" ELSE Head(contents) \o Concat(Tail(contents))

FileHash(contents) == "sha256(" \o Concat(contents) \o ")"

EmptyMap == [n \in {} |-> ""]

NoDirs == [v \in {} |-> ""]

NoSums == [exists |-> FALSE, lines |-> <<>>]

\* Checksums of a version: a nil map when there is no SHA256SUMS file.
NilChecksums == [isNil |-> TRUE, map |-> EmptyMap]

\* stream.ReadChecksumFile: the last line naming a file wins.
ReadChecksumFile(lines) ==
    [n \in {lines[i][2] : i \in DOMAIN lines} |->
        LET last == CHOOSE i \in DOMAIN lines :
                        /\ lines[i][2] = n
                        /\ \A j \in DOMAIN lines : lines[j][2] = n => j <= i
        IN  lines[last][1]]

\* stream.GetItem on <stream>/<product>/<version>/<name>.
GetItem(dsk, p, v, name, calcHashes) ==
    IF ~(v \in DOMAIN dsk[p] /\ name \in DOMAIN dsk[p][v].files)
    THEN [err |-> "notexist"]
    ELSE LET content == dsk[p][v].files[name]
             isDelta == Ext(name) = <<"vcdiff">>
             isDiskDelta == HasSuffixExt(name, ItemExtDiskKVMDelta)
         IN  [err |-> "",
              item |-> [
                ftype |-> IF Ext(name) = ItemExtSquashfs THEN ItemTypeSquashfs
                          ELSE IF Ext(name) = ItemExtDiskKVM THEN ItemTypeDiskKVM
                          ELSE IF isDelta
                               THEN (IF isDiskDelta THEN ItemTypeDiskKVMDelta ELSE ItemTypeSquashfsDelta)
                               ELSE JoinDots(name),
                path |-> <<p, v, name>>,
                size |-> Len(content),
                sha256 |-> IF calcHashes THEN FileHash(<<content>>) ELSE "",
                combinedDiskKvmImg |-> "",
                combinedSquashFs |-> "",
                combinedRootXz |-> "",
                deltaBase |-> IF isDelta
                              THEN (IF isDiskDelta THEN name[Len(name) - 2] ELSE name[Len(name) - 1])
                              ELSE ""]]

\* The combined hash GetVersion stores in the metadata item for one item type.
CombinedHash(dir, items, ftype, calcHashes) ==
    LET names == {n \in DOMAIN items : items[n].ftype = ftype}
    IN  IF names = {} \/ ~calcHashes THEN ""
        ELSE LET n == CHOOSE n \in names : TRUE
             IN  FileHash(<<dir.files[MetadataName], dir.files[n]>>)

\* stream.GetVersion on <stream>/<product>/<version>.
GetVersion(dsk, p, v, calcHashes, includeIncomplete) ==
    IF IsHidden(v) /\ ~includeIncomplete THEN [err |-> "incomplete"]
    ELSE IF v \notin DOMAIN dsk[p] THEN [err |-> "notexist"]
    ELSE IF dsk[p][v].config = "invalid" THEN [err |-> "invalidconfig"]
    ELSE LET dir == dsk[p][v]
             names == {n \in DOMAIN dir.files : HasSuffix(n, allowedItemExtensions)}
             raw == [n \in names |-> GetItem(dsk, p, v, n, calcHashes).item]
             hasMeta == MetadataName \in names
             rootfs == {n \in names : raw[n].ftype \in {ItemTypeDiskKVM, ItemTypeSquashfs}}
             incomplete == ~(hasMeta /\ rootfs # {})
             items == IF hasMeta
                      THEN [raw EXCEPT ![MetadataName] =
                              [@ EXCEPT !.combinedDiskKvmImg = CombinedHash(dir, raw, ItemTypeDiskKVM, calcHashes),
                                        !.combinedSquashFs = CombinedHash(dir, raw, ItemTypeSquashfs, calcHashes),
                                        !.combinedRootXz = CombinedHash(dir, raw, ItemTypeRootTarXz, calcHashes)]]
                      ELSE raw
         IN  IF incomplete /\ ~includeIncomplete THEN [err |-> "incomplete"]
             ELSE [err |-> "",
                   version |-> [items |-> items,
                                checksums |-> IF dir.sums.exists
                                              THEN [isNil |-> FALSE, map |-> ReadChecksumFile(dir.sums.lines)]
                                              ELSE NilChecksums]]

\* The error stream.GetProduct returns: the one of the first version whose
\* GetVersion fails with anything but ErrVersionIncomplete (lines 399-407).
GetProductErr(dsk, p, calcHashes) ==
    LET failing == SelectSeq(VersionOrder, LAMBDA v :
                       v \in DOMAIN dsk[p] /\ GetVersion(dsk, p, v, calcHashes, FALSE).err \notin {"", "incomplete"})
    IN  IF failing = <<>> THEN "" ELSE GetVersion(dsk, p, Head(failing), calcHashes, FALSE).err

\* The error stream.GetProducts returns: the walk stops at the first product
\* whose GetProduct fails with anything but ErrProductInvalidPath (324-332).
GetProductsErr(dsk, calcHashes) ==
    IF \E p \in DOMAIN dsk : GetProductErr(dsk, p, calcHashes) # ""
    THEN GetProductErr(dsk, CHOOSE p \in DOMAIN dsk : GetProductErr(dsk, p, calcHashes) # "", calcHashes)
    ELSE ""

\* stream.GetProduct: the versions of one product directory, incomplete ones ignored.
GetProduct(dsk, p, calcHashes) ==
    LET ok == {v \in DOMAIN dsk[p] : GetVersion(dsk, p, v, calcHashes, FALSE).err = ""}
    IN  [versions |-> [v \in ok |-> GetVersion(dsk, p, v, calcHashes, FALSE).version]]

\* Lines 334-337 left out: products with no version are kept.
GetProductsKeepsEmpty(dsk, calcHashes) ==
    [p \in DOMAIN dsk |-> GetProduct(dsk, p, calcHashes)]

\* stream.GetProducts: products with no version are skipped.
GetProducts(dsk, calcHashes) ==
    LET found == {p \in DOMAIN dsk : DOMAIN GetProduct(dsk, p, calcHashes).versions # {}}
    IN  [p \in found |-> GetProduct(dsk, p, calcHashes)]

\* json.Marshal of the catalog: Version.Checksums is tagged json:"-".
ToJSON(products) ==
    [p \in DOMAIN products |-> [v \in DOMAIN products[p].versions |-> products[p].versions[v].items]]

\* A reading of <stream>.json that loses the delta items of every version.
FromJSONDropsDeltas(json) ==
    [p \in DOMAIN json |->
        [versions |-> [v \in DOMAIN json[p] |->
            [items |-> [n \in {m \in DOMAIN json[p][v] :
                                  json[p][v][m].ftype \notin {ItemTypeDiskKVMDelta, ItemTypeSquashfsDelta}} |->
                            json[p][v][n]],
             checksums |-> NilChecksums]]]]

\* shared.ReadJSONFile into a ProductCatalog: Checksums come back nil.
FromJSON(json) ==
    [p \in DOMAIN json |->
        [versions |-> [v \in DOMAIN json[p] |-> [items |-> json[p][v], checksums |-> NilChecksums]]]]

NoCatalogFile == [exists |-> FALSE, products |-> ToJSON(EmptyMap)]

\* diffProducts' findMissing(mapOld, mapNew).
findMissing(mapOld, mapNew) ==
    LET missingVersions(id) ==
            IF id \notin DOMAIN mapOld THEN DOMAIN mapNew[id].versions
            ELSE {name \in DOMAIN mapNew[id].versions : name \notin DOMAIN mapOld[id].versions}
        ids == {id \in DOMAIN mapNew : id \notin DOMAIN mapOld \/ missingVersions(id) # {}}
    IN  [id \in ids |->
            [mapNew[id] EXCEPT !.versions = [name \in missingVersions(id) |-> mapNew[id].versions[name]]]]

\* diffProducts(oldProducts, newProducts) = (old, new).
diffProducts(oldProducts, newProducts) ==
    <<findMissing(newProducts, oldProducts), findMissing(oldProducts, newProducts)>>

\* Reading a Go map: the zero value for a missing key.
Lookup(map, n) == IF n \in DOMAIN map THEN map[n] ELSE ""

\* A version directory as uploaded: metadata "m", qcow2 image "d", squashfs "s",
\* a delta file "x" against v1; config is the state of its image.yaml: "none",
\* "valid", or "invalid" when shared.ReadYAMLFile cannot decode it.
DiskName == <<"disk", "qcow2">>

RootfsName == <<"rootfs", "squashfs">>

UploadedDelta == <<"disk", "v1", "qcow2", "vcdiff">>

Line(content, name) == <<FileHash(<<content>>), name>>

MetaAndDisk == (MetadataName :> "m") @@ (DiskName :> "d")

UploadKinds ==
    [ plain      |-> [files |-> MetaAndDisk, sums |-> NoSums, config |-> "none"],
      sums       |-> [files |-> MetaAndDisk,
                      sums |-> [exists |-> TRUE, lines |-> <<Line("m", MetadataName), Line("d", DiskName)>>],
                      config |-> "none"],
      squashfs   |-> [files |-> (MetadataName :> "m") @@ (RootfsName :> "s"),
                      sums |-> [exists |-> TRUE, lines |-> <<Line("m", MetadataName), Line("s", RootfsName)>>],
                      config |-> "valid"],
      mismatch   |-> [files |-> MetaAndDisk,
                      sums |-> [exists |-> TRUE, lines |-> <<Line("m", MetadataName), <<"invalid", DiskName>>>>],
                      config |-> "none"],
      noentry    |-> [files |-> MetaAndDisk,
                      sums |-> [exists |-> TRUE, lines |-> <<Line("m", MetadataName)>>],
                      config |-> "none"],
      extraentry |-> [files |-> MetaAndDisk,
                      sums |-> [exists |-> TRUE,
                                lines |-> <<Line("m", MetadataName), Line("d", DiskName), Line("s", RootfsName)>>],
                      config |-> "none"],
      incomplete |-> [files |-> (MetadataName :> "m"), sums |-> NoSums, config |-> "none"],
      nometa     |-> [files |-> (DiskName :> "d"), sums |-> NoSums, config |-> "none"],
      badconfig  |-> [files |-> MetaAndDisk, sums |-> NoSums, config |-> "invalid"],
      delta      |-> [files |-> MetaAndDisk @@ (UploadedDelta :> "x"),
                      sums |-> [exists |-> TRUE, lines |-> <<Line("m", MetadataName), Line("d", DiskName)>>],
                      config |-> "none"],
      deltabad   |-> [files |-> MetaAndDisk @@ (UploadedDelta :> "x"),
                      sums |-> [exists |-> TRUE,
                                lines |-> <<Line("m", MetadataName), Line("d", DiskName),
                                            <<"invalid", UploadedDelta>>>>],
                      config |-> "none"] ]

\* What is uploaded where: the first product takes every kind of directory,
\* the second one plain directories, the hidden name a directory in upload.
FirstProduct == "ubuntu:noble:amd64:cloud"

UploadChoices ==
    {<<FirstProduct, v, k>> : v \in {"v1", "v2", "v3"}, k \in DOMAIN UploadKinds}
        \cup {<<FirstProduct, ".v0", "plain">>}
        \cup {<<p, "v1", "plain">> : p \in ProductIDs \ {FirstProduct}}

WithDir(dsk, p, v, dir) ==
    [dsk EXCEPT ![p] = [w \in DOMAIN dsk[p] \cup {v} |-> IF w = v THEN dir ELSE dsk[p][w]]]

WithoutDir(dsk, p, v) ==
    [dsk EXCEPT ![p] = [w \in DOMAIN dsk[p] \ {v} |-> dsk[p][w]]]

WithFile(dir, name, content) ==
    [dir EXCEPT !.files = [n \in DOMAIN dir.files \cup {name} |-> IF n = name THEN content ELSE dir.files[n]]]

WithoutFile(dir, name) ==
    [dir EXCEPT !.files = [n \in DOMAIN dir.files \ {name} |-> dir.files[n]]]

\* shared.AppendToFile of one "<checksum>  <name>\n" line to SHA256SUMS.
AppendToFile(dir, checksum, name) ==
    [dir EXCEPT !.sums.lines = Append(@, <<checksum, name>>)]

InitBuild ==
    /\ disk = [p \in ProductIDs |-> NoDirs]
    /\ published = NoCatalogFile
    /\ catProducts = EmptyMap
    /\ bpc = "idle"
    /\ jobs1 = {}
    /\ jobs2 = {}
    /\ nbuilds = 0
    /\ nuploads = 0
    /\ nremovals = 0
    /\ p1log = {}
    /\ generated = {}
    /\ differFailed = FALSE
    /\ settled = FALSE

\* An image build publishes a version directory under <stream>/<product>/.
Upload ==
    /\ UNCHANGED notBuild
    /\ bpc = "idle"
    /\ nuploads < MaxUploads
    /\ \E c \in UploadChoices :
        /\ c[2] \notin DOMAIN disk[c[1]]
        /\ disk' = WithDir(disk, c[1], c[2], UploadKinds[c[3]])
    /\ nuploads' = nuploads + 1
    /\ UNCHANGED <<published, catProducts, bpc, jobs1, jobs2, nbuilds, nremovals, p1log, generated, differFailed>>
    /\ settled' = FALSE

\* A version directory disappears between two builds.
RemoveDir ==
    /\ UNCHANGED notBuild
    /\ bpc = "idle"
    /\ nremovals < MaxRemovals
    /\ \E p \in DOMAIN disk : \E v \in DOMAIN disk[p] :
        disk' = WithoutDir(disk, p, v)
    /\ nremovals' = nremovals + 1
    /\ UNCHANGED <<published, catProducts, bpc, jobs1, jobs2, nbuilds, nuploads, p1log, generated, differFailed>>
    /\ settled' = FALSE

NoVersions == [v \in {} |-> [items |-> EmptyMap, checksums |-> NilChecksums]]

\* Lines 695-703 with versions dropped instead of retained.
RetainNothing(products, id) == NoVersions

\* Lines 695-703: the Versions map the catalog's product starts with.
RetainVersions(products, id) ==
    IF id \in DOMAIN products /\ DOMAIN products[id].versions # {}
    THEN products[id].versions
    ELSE NoVersions

\* Lines 636-750 with the catalog rebuilt from the scan: a loaded product
\* the scan does not return is dropped.
StartBuildDropsUnscanned ==
    /\ UNCHANGED notBuild
    /\ bpc = "idle"
    /\ nbuilds < MaxBuilds
    /\ GetProductsErr(disk, FALSE) = ""
    /\ LET loaded == IF published.exists THEN FromJSON(published.products) ELSE EmptyMap
           products == GetProducts(disk, FALSE)
           newProducts == diffProducts(loaded, products)[2]
       IN  /\ catProducts' = [id \in (DOMAIN loaded \cap DOMAIN products) \cup DOMAIN newProducts |->
                        IF id \in DOMAIN newProducts
                        THEN [versions |-> RetainVersions(loaded, id)]
                        ELSE loaded[id]]
           /\ jobs1' = UNION {{[p |-> id, v |-> name, ok |-> id \in DOMAIN loaded] :
                                  name \in DOMAIN newProducts[id].versions} :
                               id \in DOMAIN newProducts}
    /\ bpc' = "phase1"
    /\ nbuilds' = nbuilds + 1
    /\ p1log' = {}
    /\ generated' = {}
    /\ differFailed' = FALSE
    /\ UNCHANGED settled
    /\ UNCHANGED <<disk, published, jobs2, nuploads, nremovals>>

\* Lines 636-750 up to the submission of the new-version jobs: load the
\* catalog, scan the tree, diff, and put every new product in the catalog.
\* Each job closes over id, versionName and the ok of line 695.
StartBuild ==
    /\ UNCHANGED notBuild
    /\ bpc = "idle"
    /\ nbuilds < MaxBuilds
    /\ GetProductsErr(disk, FALSE) = ""
    /\ LET loaded == IF published.exists THEN FromJSON(published.products) ELSE EmptyMap
           products == GetProducts(disk, FALSE)
           newProducts == diffProducts(loaded, products)[2]
       IN  /\ catProducts' = [id \in DOMAIN loaded \cup DOMAIN newProducts |->
                        IF id \in DOMAIN newProducts
                        THEN [versions |-> RetainVersions(loaded, id)]
                        ELSE loaded[id]]
           /\ jobs1' = UNION {{[p |-> id, v |-> name, ok |-> id \in DOMAIN loaded] :
                                  name \in DOMAIN newProducts[id].versions} :
                               id \in DOMAIN newProducts}
    /\ bpc' = "phase1"
    /\ nbuilds' = nbuilds + 1
    /\ p1log' = {}
    /\ generated' = {}
    /\ differFailed' = FALSE
    /\ UNCHANGED settled
    /\ UNCHANGED <<disk, published, jobs2, nuploads, nremovals>>

\* Lines 648-651: stream.GetProducts fails and buildProductCatalog returns
\* the error; no job is submitted.
StartBuildScanErr ==
    /\ UNCHANGED notBuild
    /\ bpc = "idle"
    /\ nbuilds < MaxBuilds
    /\ GetProductsErr(disk, FALSE) # ""
    /\ bpc' = "scanerr"
    /\ nbuilds' = nbuilds + 1
    /\ p1log' = {}
    /\ generated' = {}
    /\ differFailed' = FALSE
    /\ UNCHANGED settled
    /\ UNCHANGED <<disk, published, catProducts, jobs1, jobs2, nuploads, nremovals>>

DeltaTypes == {ItemTypeDiskKVMDelta, ItemTypeSquashfsDelta}

\* Lines 724-741: the verification loop of a new-version job; ok is the
\* variable of line 695, the only ok in scope at line 731.
ChecksumsVerified(version, ok) ==
    \/ version.checksums.isNil
    \/ \A itemName \in DOMAIN version.items :
        \/ ~ok /\ version.items[itemName].ftype \in DeltaTypes
        \/ Lookup(version.checksums.map, itemName) = version.items[itemName].sha256

\* Lines 711-748 with a failing job ending the phase: the jobs not yet run
\* are dropped.
NewVersionJobStopsOnFailure ==
    /\ UNCHANGED notBuild
    /\ bpc = "phase1"
    /\ \E j \in jobs1 :
        LET r == GetVersion(disk, j.p, j.v, TRUE, FALSE)
            added == r.err = "" /\ ChecksumsVerified(r.version, j.ok)
        IN  /\ jobs1' = IF added THEN jobs1 \ {j} ELSE {}
            /\ p1log' = p1log \cup {j}
            /\ catProducts' = IF added
                      THEN [catProducts EXCEPT ![j.p].versions =
                              [v \in DOMAIN catProducts[j.p].versions \cup {j.v} |->
                                  IF v = j.v THEN r.version ELSE catProducts[j.p].versions[v]]]
                      ELSE catProducts
    /\ UNCHANGED <<disk, published, bpc, jobs2, nbuilds, nuploads, nremovals, generated, differFailed, settled>>

\* Lines 711-748: one new-version job.
NewVersionJob ==
    /\ UNCHANGED notBuild
    /\ bpc = "phase1"
    /\ \E j \in jobs1 :
        LET r == GetVersion(disk, j.p, j.v, TRUE, FALSE)
        IN  /\ jobs1' = jobs1 \ {j}
            /\ p1log' = p1log \cup {j}
            /\ catProducts' = IF r.err = "" /\ ChecksumsVerified(r.version, j.ok)
                      THEN [catProducts EXCEPT ![j.p].versions =
                              [v \in DOMAIN catProducts[j.p].versions \cup {j.v} |->
                                  IF v = j.v THEN r.version ELSE catProducts[j.p].versions[v]]]
                      ELSE catProducts
    /\ UNCHANGED <<disk, published, bpc, jobs2, nbuilds, nuploads, nremovals, generated, differFailed, settled>>

\* Lines 776-779 with the oldest pair skipped as well.
DeltaPairsFromSecond(versions) == {<<versions[i - 1], versions[i]>> : i \in 3..Len(versions)}

\* Lines 766-779: consecutive pairs of the sorted versions; none below two versions.
DeltaPairs(versions) == {<<versions[i - 1], versions[i]>> : i \in 2..Len(versions)}

\* Lines 763-788 with the source taken from the version directories on disk
\* instead of the keys of product.Versions.
DeltaJobsOverDisk(products) ==
    UNION {UNION {{[p |-> id, src |-> pair[1], tgt |-> pair[2], item |-> itemName,
                    ftype |-> products[id].versions[pair[2]].items[itemName].ftype] :
                      itemName \in {n \in DOMAIN products[id].versions[pair[2]].items :
                                      products[id].versions[pair[2]].items[n].ftype
                                          \in {ItemTypeDiskKVM, ItemTypeSquashfs}}} :
                  pair \in {pr \in DeltaPairs(SortVersions(DOMAIN disk[id])) :
                              pr[2] \in DOMAIN products[id].versions}} :
           id \in DOMAIN products}

\* Lines 763-788: the delta jobs submitted for the catalog after wg.Wait.
DeltaJobs(products) ==
    UNION {UNION {{[p |-> id, src |-> pair[1], tgt |-> pair[2], item |-> itemName,
                    ftype |-> products[id].versions[pair[2]].items[itemName].ftype] :
                      itemName \in {n \in DOMAIN products[id].versions[pair[2]].items :
                                      products[id].versions[pair[2]].items[n].ftype
                                          \in {ItemTypeDiskKVM, ItemTypeSquashfs}}} :
                  pair \in DeltaPairs(SortVersions(DOMAIN products[id].versions))} :
           id \in DOMAIN products}

\* Line 754: wg.Wait returns once every new-version job has run; lines
\* 763-788 submit the delta jobs.
Phase1Done ==
    /\ UNCHANGED notBuild
    /\ bpc = "phase1"
    /\ jobs1 = {}
    /\ jobs2' = DeltaJobs(catProducts)
    /\ bpc' = "phase2"
    /\ UNCHANGED <<disk, published, catProducts, jobs1, nbuilds, nuploads, nremovals, p1log, generated, differFailed, settled>>

\* Lines 792-799: strings.CutSuffix(itemName, filepath.Ext(itemName)) and the
\* "%s.%s.%s" of prefix, source version and suffix.
DeltaName(itemName, sourceVerName, ftype) ==
    SubSeq(itemName, 1, Len(itemName) - Len(Ext(itemName)))
        \o <<sourceVerName>>
        \o (IF ftype = ItemTypeDiskKVM THEN <<"qcow2", "vcdiff">> ELSE <<"vcdiff">>)

HasFile(dsk, p, v, name) == v \in DOMAIN dsk[p] /\ name \in DOMAIN dsk[p][v].files

\* Lines 840-869 with the checksum line appended to the SHA256SUMS of the
\* newest version directory on disk instead of the target version's.
RecordDeltaInNewestDir(j, deltaName, dsk) ==
    LET tv == catProducts[j.p].versions[j.tgt]
        r == GetItem(dsk, j.p, j.tgt, deltaName, TRUE)
        append == deltaName \notin DOMAIN tv.checksums.map /\ DOMAIN tv.checksums.map # {}
        onDisk == SortVersions(DOMAIN dsk[j.p])
        newest == onDisk[Len(onDisk)]
        items == [n \in DOMAIN tv.items \cup {deltaName} |-> IF n = deltaName THEN r.item ELSE tv.items[n]]
        sums == [tv.checksums EXCEPT !.map =
                    [n \in DOMAIN @ \cup {deltaName} |-> IF n = deltaName THEN r.item.sha256 ELSE @[n]]]
    IN  IF r.err # ""
        THEN /\ disk' = dsk
             /\ catProducts' = catProducts
        ELSE /\ disk' = IF append
                        THEN WithDir(dsk, j.p, newest, AppendToFile(dsk[j.p][newest], r.item.sha256, deltaName))
                        ELSE dsk
             /\ catProducts' = [catProducts EXCEPT ![j.p].versions[j.tgt] =
                          [items |-> items, checksums |-> IF append THEN sums ELSE tv.checksums]]

\* Lines 840-869: the delta file is read, its hash appended to the version's
\* checksums file when the in-memory Checksums are non-empty and lack it, and
\* the item put in the catalog.
RecordDelta(j, deltaName, dsk) ==
    LET tv == catProducts[j.p].versions[j.tgt]
        r == GetItem(dsk, j.p, j.tgt, deltaName, TRUE)
        append == deltaName \notin DOMAIN tv.checksums.map /\ DOMAIN tv.checksums.map # {}
        items == [n \in DOMAIN tv.items \cup {deltaName} |-> IF n = deltaName THEN r.item ELSE tv.items[n]]
        sums == [tv.checksums EXCEPT !.map =
                    [n \in DOMAIN @ \cup {deltaName} |-> IF n = deltaName THEN r.item.sha256 ELSE @[n]]]
    IN  IF r.err # ""
        THEN /\ disk' = dsk
             /\ catProducts' = catProducts
        ELSE /\ disk' = IF append
                        THEN WithDir(dsk, j.p, j.tgt, AppendToFile(dsk[j.p][j.tgt], r.item.sha256, deltaName))
                        ELSE dsk
             /\ catProducts' = [catProducts EXCEPT ![j.p].versions[j.tgt] =
                          [items |-> items, checksums |-> IF append THEN sums ELSE tv.checksums]]

\* Lines 788-871: one delta job. xdelta3 writes the output when it succeeds;
\* it can only succeed with the target file present and no output file in
\* the way, and it can always fail, after which the output path is removed.
DeltaJob ==
    /\ UNCHANGED notBuild
    /\ bpc = "phase2"
    /\ \E j \in jobs2 :
        LET tv == catProducts[j.p].versions[j.tgt]
            deltaName == DeltaName(j.item, j.src, j.ftype)
            deltaExists == deltaName \in DOMAIN tv.items
            canSucceed == HasFile(disk, j.p, j.tgt, j.item) /\ ~HasFile(disk, j.p, j.tgt, deltaName)
        IN  /\ jobs2' = jobs2 \ {j}
            /\ IF deltaExists
               THEN IF tv.items[deltaName].sha256 = ""
                    THEN /\ RecordDelta(j, deltaName, disk)
                         /\ UNCHANGED <<generated, differFailed>>
                    ELSE UNCHANGED <<disk, catProducts, generated, differFailed>>
               ELSE IF ~HasFile(disk, j.p, j.src, j.item)
                    THEN UNCHANGED <<disk, catProducts, generated, differFailed>>
                    ELSE \/ /\ canSucceed
                            /\ RecordDelta(j, deltaName,
                                   WithDir(disk, j.p, j.tgt, WithFile(disk[j.p][j.tgt], deltaName, "x")))
                            /\ generated' = generated \cup
                                   {[p |-> j.p, v |-> j.tgt, name |-> deltaName,
                                     sums |-> disk[j.p][j.tgt].sums]}
                            /\ UNCHANGED differFailed
                         \/ /\ differFailed' = TRUE
                            /\ disk' = IF HasFile(disk, j.p, j.tgt, deltaName)
                                       THEN WithDir(disk, j.p, j.tgt, WithoutFile(disk[j.p][j.tgt], deltaName))
                                       ELSE disk
                            /\ UNCHANGED <<catProducts, generated>>
    /\ UNCHANGED <<published, bpc, jobs1, nbuilds, nuploads, nremovals, p1log, settled>>

\* Lines 877-879: wg.Wait returns and the catalog is returned.
Phase2Done ==
    /\ UNCHANGED notBuild
    /\ bpc = "phase2"
    /\ jobs2 = {}
    /\ bpc' = "built"
    /\ UNCHANGED <<disk, published, catProducts, jobs1, jobs2, nbuilds, nuploads, nremovals, p1log, generated, differFailed, settled>>

\* buildIndex writes the returned catalog over <stream>.json (lines 516-530, 605-623).
PublishCatalog ==
    /\ UNCHANGED notBuild
    /\ bpc = "built"
    /\ published' = [exists |-> TRUE, products |-> ToJSON(catProducts)]
    /\ bpc' = "idle"
    /\ catProducts' = EmptyMap
    /\ p1log' = {}
    /\ generated' = {}
    /\ differFailed' = FALSE
    /\ settled' = ~differFailed
    /\ UNCHANGED <<disk, jobs1, jobs2, nbuilds, nuploads, nremovals>>

\* buildIndex returns an error before the catalog is renamed, the one of
\* buildProductCatalog (519-521) or of a later step: <stream>.json keeps its
\* content.
PublishCatalogFail ==
    /\ UNCHANGED notBuild
    /\ bpc \in {"built", "scanerr"}
    /\ bpc' = "idle"
    /\ catProducts' = EmptyMap
    /\ p1log' = {}
    /\ generated' = {}
    /\ differFailed' = FALSE
    /\ settled' = FALSE
    /\ UNCHANGED <<disk, published, jobs1, jobs2, nbuilds, nuploads, nremovals>>

NextBuild ==
    \/ Upload
    \/ RemoveDir
    \/ StartBuild
    \/ StartBuildScanErr
    \/ NewVersionJob
    \/ Phase1Done
    \/ DeltaJob
    \/ Phase2Done
    \/ PublishCatalog
    \/ PublishCatalogFail

(***************************************************************************)
(* Claims about buildProductCatalog.                                       *)
(***************************************************************************)

\* The item files of a directory that are not delta files.
NonDeltaFiles(dir) ==
    {n \in DOMAIN dir.files : HasSuffix(n, allowedItemExtensions) /\ Ext(n) # <<"vcdiff">>}

\* Every non-delta item file of the directory has its SHA-256 in the manifest.
ManifestMatches(dir) ==
    LET manifest == ReadChecksumFile(dir.sums.lines)
    IN  \A n \in NonDeltaFiles(dir) :
            n \in DOMAIN manifest /\ manifest[n] = FileHash(<<dir.files[n]>>)

\* C4: a new version directory with a SHA256SUMS file is added to the catalog
\* exactly when every non-delta item's computed SHA-256 equals its manifest
\* entry (delta files and entries naming absent files play no role), and a
\* new version directory without a SHA256SUMS file is added unverified.
C4_AddedIffNonDeltaItemsVerified ==
    \A j \in p1log :
        j.v \in DOMAIN catProducts[j.p].versions
            <=> (disk[j.p][j.v].sums.exists => ManifestMatches(disk[j.p][j.v]))

\* C5: every version of the previously published catalog whose directory is
\* still on disk is in the catalog the build returns, with every published
\* item record unchanged.
C5_PublishedVersionsRetained ==
    bpc = "built" =>
        \A p \in DOMAIN published.products : \A v \in DOMAIN published.products[p] :
            v \in DOMAIN disk[p] =>
                /\ p \in DOMAIN catProducts
                /\ v \in DOMAIN catProducts[p].versions
                /\ \A n \in DOMAIN published.products[p][v] :
                    /\ n \in DOMAIN catProducts[p].versions[v].items
                    /\ catProducts[p].versions[v].items[n] = published.products[p][v][n]

\* A build returned for a product that had published versions on disk and
\* new versions to add.
C5_Witness ==
    /\ bpc = "built"
    /\ \E j \in p1log :
        /\ j.ok
        /\ j.v \in DOMAIN catProducts[j.p].versions
        /\ \E v \in DOMAIN published.products[j.p] : v \in DOMAIN disk[j.p]

C10_GeneratedDeltaInManifest ==
    \A g \in generated :
        LET before == ReadChecksumFile(g.sums.lines)
            lines == disk[g.p][g.v].sums.lines
            items == catProducts[g.p].versions[g.v].items
        IN  (g.sums.exists /\ DOMAIN before # {} /\ g.name \notin DOMAIN before) =>
                /\ Cardinality({i \in DOMAIN lines : lines[i][2] = g.name}) = 1
                /\ g.name \in DOMAIN items
                /\ ReadChecksumFile(lines)[g.name] = items[g.name].sha256

\* Every item file of the directory matches its manifest entry, except delta
\* files the manifest has no entry for.
MatchesButForAbsentDeltas(dir) ==
    LET manifest == ReadChecksumFile(dir.sums.lines)
    IN  \A n \in {m \in DOMAIN dir.files : HasSuffix(m, allowedItemExtensions)} :
            \/ n \in DOMAIN manifest /\ manifest[n] = FileHash(<<dir.files[n]>>)
            \/ Ext(n) = <<"vcdiff">> /\ n \notin DOMAIN manifest

\* C11: a new-version job never rejects a version because of a delta item
\* the SHA256SUMS file has no entry for, whether the product is new to the
\* catalog or was in it before the build: a version whose other items all
\* match the manifest is added.
C11_AbsentDeltaEntryTolerated ==
    \A j \in p1log :
        (disk[j.p][j.v].sums.exists /\ MatchesButForAbsentDeltas(disk[j.p][j.v]))
            => j.v \in DOMAIN catProducts[j.p].versions

\* The manifest of the directory has an entry for one of its delta files and
\* the entry is not the file's SHA-256.
DeltaEntryDiffers(dir) ==
    LET manifest == ReadChecksumFile(dir.sums.lines)
    IN  /\ dir.sums.exists
        /\ \E n \in DOMAIN dir.files :
            /\ Ext(n) = <<"vcdiff">>
            /\ n \in DOMAIN manifest
            /\ manifest[n] # FileHash(<<dir.files[n]>>)

\* C31: a new-version job whose directory has a SHA256SUMS file with an
\* entry for a delta item that differs from the item's computed SHA-256
\* rejects the version, whether the product is new to the catalog or was in
\* it before the build.
C31_DeltaMismatchRejectsVersion ==
    \A j \in p1log :
        DeltaEntryDiffers(disk[j.p][j.v]) => j.v \notin DOMAIN catProducts[j.p].versions

\* C33: every delta the build generates for a version is computed against
\* the version right before it in the sorted versions of the catalog as it
\* stands after the new-version jobs; a version directory that is on disk
\* but not in the catalog (incomplete, hidden, or rejected) is never the
\* base and is skipped over.
C33_DeltaAgainstPrecedingCatalogVersion ==
    \A g \in generated :
        LET versions == SortVersions(DOMAIN catProducts[g.p].versions)
            i == IndexOf(versions, g.v)
            items == catProducts[g.p].versions[g.v].items
        IN  /\ i > 1
            /\ \E n \in DOMAIN items :
                /\ items[n].ftype \in {ItemTypeDiskKVM, ItemTypeSquashfs}
                /\ g.name = DeltaName(n, versions[i - 1], items[n].ftype)

\* The build has generated the delta of v3 against v1 while v2 is on disk
\* and not in the catalog.
C33_Witness ==
    /\ bpc = "built"
    /\ \E g \in generated :
        /\ g.v = "v3"
        /\ g.name = DeltaName(DiskName, "v1", ItemTypeDiskKVM)
        /\ "v2" \in DOMAIN disk[g.p]
        /\ "v2" \notin DOMAIN catProducts[g.p].versions

\* C36: once the new-version jobs are done, no step of the build touches the
\* directory of a version that is not in the catalog: it gets no delta
\* file and its SHA256SUMS is not modified.
C36_RejectedVersionDirUntouched ==
    [][bpc = "phase2" =>
        \A p \in ProductIDs : \A v \in DOMAIN disk[p] :
            (p \notin DOMAIN catProducts \/ v \notin DOMAIN catProducts[p].versions)
                => v \in DOMAIN disk'[p] /\ disk'[p][v] = disk[p][v]]_vars

\* The build has generated a delta and appended its checksum in a product
\* that also has, on disk, a version with a SHA256SUMS file that is not in
\* the catalog.
C36_Witness ==
    /\ bpc = "built"
    /\ \E g \in generated :
        /\ g.sums.exists
        /\ \E v \in DOMAIN disk[g.p] :
            /\ v \notin DOMAIN catProducts[g.p].versions
            /\ disk[g.p][v].sums.exists

\* C38: the catalog a build returns has every product and every version of
\* the catalog it loaded from <stream>.json, whether or not their
\* directories are still on disk.
C38_NothingRemovedFromCatalog ==
    bpc = "built" =>
        \A p \in DOMAIN published.products :
            /\ p \in DOMAIN catProducts
            /\ DOMAIN published.products[p] \subseteq DOMAIN catProducts[p].versions

\* A build has returned a catalog with a published version of a product
\* that has no version directory left on disk.
C38_Witness ==
    /\ bpc = "built"
    /\ \E p \in DOMAIN published.products :
        /\ DOMAIN published.products[p] # {}
        /\ DOMAIN disk[p] = {}
        /\ DOMAIN catProducts[p].versions = DOMAIN published.products[p]

HasMetadataAndRootfs(items) ==
    /\ <<"lxd", "tar", "xz">> \in DOMAIN items
    /\ \E n \in DOMAIN items : items[n].ftype \in {"squashfs", "disk-kvm.img"}

\* A version directory is complete: it holds lxd.tar.xz and a *.squashfs or
\* *.qcow2 file.
DirComplete(dir) ==
    /\ <<"lxd", "tar", "xz">> \in DOMAIN dir.files
    /\ \E n \in DOMAIN dir.files : n[Len(n)] \in {"squashfs", "qcow2"}

\* C16: every version in the catalog of a build, and in the catalog it
\* publishes, has an lxd.tar.xz item and an item of type squashfs or
\* disk-kvm.img; and a product that was not published before and whose
\* version directories are all incomplete is not a key of the catalog (the
\* keys are what the index lists).
C16_OnlyCompleteVersionsAdded ==
    /\ \A p \in DOMAIN catProducts : \A v \in DOMAIN catProducts[p].versions :
            HasMetadataAndRootfs(catProducts[p].versions[v].items)
    /\ \A p \in DOMAIN published.products : \A v \in DOMAIN published.products[p] :
            HasMetadataAndRootfs(published.products[p][v])
    /\ \A p \in ProductIDs :
            (/\ bpc \in {"phase1", "phase2", "built"}
             /\ p \notin DOMAIN published.products
             /\ \A v \in DOMAIN disk[p] : ~DirComplete(disk[p][v]))
                => p \notin DOMAIN catProducts

\* A build returned a catalog with a version it added, and without a product
\* that has version directories, all of them incomplete.
C16_Witness ==
    /\ bpc = "built"
    /\ \E j \in p1log : j.v \in DOMAIN catProducts[j.p].versions
    /\ \E p \in ProductIDs :
        /\ DOMAIN disk[p] # {}
        /\ \A v \in DOMAIN disk[p] : ~DirComplete(disk[p][v])
        /\ p \notin DOMAIN catProducts

\* C17: no version whose name begins with '.' is in the catalog of a build
\* or in the published catalog, whatever its directory holds.
C17_HiddenVersionNeverAdded ==
    /\ \A p \in DOMAIN catProducts : ".v0" \notin DOMAIN catProducts[p].versions
    /\ \A p \in DOMAIN published.products : ".v0" \notin DOMAIN published.products[p]

\* A build returned a catalog with a version it added to a product that has
\* a complete hidden version directory.
C17_Witness ==
    /\ bpc = "built"
    /\ \E j \in p1log :
        /\ j.v \in DOMAIN catProducts[j.p].versions
        /\ ".v0" \in DOMAIN disk[j.p]
        /\ DirComplete(disk[j.p][".v0"])

\* Every item file of the directory has its SHA-256 in the manifest.
AllItemsMatch(dir) ==
    LET manifest == ReadChecksumFile(dir.sums.lines)
    IN  \A n \in {m \in DOMAIN dir.files : HasSuffix(m, allowedItemExtensions)} :
            n \in DOMAIN manifest /\ manifest[n] = FileHash(<<dir.files[n]>>)

\* C18: when buildProductCatalog returns, every new version directory that
\* is complete, not hidden, and has no SHA256SUMS or matches it in every item
\* is in the catalog, whatever happened to the other new-version jobs.
C18_FailedJobBlocksNoOther ==
    bpc = "built" =>
        \A p \in ProductIDs : \A v \in DOMAIN disk[p] :
            (/\ ~(p \in DOMAIN published.products /\ v \in DOMAIN published.products[p])
             /\ v # ".v0"
             /\ DirComplete(disk[p][v])
             /\ (disk[p][v].sums.exists => AllItemsMatch(disk[p][v])))
                => (p \in DOMAIN catProducts /\ v \in DOMAIN catProducts[p].versions)

\* buildProductCatalog returned after one new-version job failed and
\* another one added its version.
C18_Witness ==
    /\ bpc = "built"
    /\ \E j \in p1log : j.v \notin DOMAIN catProducts[j.p].versions
    /\ \E j \in p1log : j.v \in DOMAIN catProducts[j.p].versions

\* C19: a version whose image.yaml cannot be parsed is skipped like an
\* incomplete one: the scan of a tree that holds such a version does not
\* fail, and the build goes on.
C19_InvalidImageConfigSkipped ==
    (\E p \in ProductIDs : \E v \in DOMAIN disk[p] : disk[p][v].config = "invalid")
        => bpc # "scanerr"

(***************************************************************************)
(*                 PART 4: pruneStreamProductVersions                      *)
(* cmd_prune.go 67-143, over the same tree and the same <stream>.json.     *)
(***************************************************************************)
MaxRetain == 2

PruneVersions == {"v1", "v2", "v3"}

\* slices.Reverse
Reverse(s) == [i \in 1..Len(s) |-> s[Len(s) + 1 - i]]

\* Lines 87-97 without the slices.Reverse: the newest versions are discarded.
DiscardNewest(versions, n) == SubSeq(SortVersions(versions), n + 1, Cardinality(versions))

\* Lines 87-97: sort, reverse, and slices.Delete(versions, 0, retain); with
\* at most retain versions nothing is discarded.
Discard(versions, n) == SubSeq(Reverse(SortVersions(versions)), n + 1, Cardinality(versions))

\* Lines 98-99: the catalog with the discarded versions of every product deleted.
DiscardFromCatalog(products, n) ==
    [p \in DOMAIN products |->
        [v \in DOMAIN products[p] \ Range(Discard(DOMAIN products[p], n)) |-> products[p][v]]]

\* Lines 81-102 with the versions taken from the product's directory instead
\* of the catalog.
DiscardPathsFromDisk(products, p, n) ==
    [i \in 1..Len(Discard(DOMAIN disk[p], n)) |-> <<p, Discard(DOMAIN disk[p], n)[i]>>]

\* Lines 101-102: the directories of one product's discarded versions.
DiscardPaths(products, p, n) ==
    [i \in 1..Len(Discard(DOMAIN products[p], n)) |-> <<p, Discard(DOMAIN products[p], n)[i]>>]

\* The orders in which `range catalog.Products` can visit the products.
ProductOrders(ids) ==
    {o \in [1..Cardinality(ids) -> ids] : Range(o) = ids}

RECURSIVE DiscardVersionsIn(_, _, _)
DiscardVersionsIn(products, order, n) ==
    IF order = <<>> THEN <<>>
    ELSE DiscardPaths(products, Head(order), n) \o DiscardVersionsIn(products, Tail(order), n)

NoTempFile == [exists |-> FALSE, products |-> ToJSON(EmptyMap)]

\* A tree of plain version directories.
PlainTree(have) == [p \in ProductIDs |-> [v \in have[p] |-> UploadKinds.plain]]

\* The version names the products can have: all of them for the first
\* product, the two oldest for the others.
VersionSets ==
    {have \in [ProductIDs -> SUBSET PruneVersions] :
        \A p \in ProductIDs \ {FirstProduct} : have[p] \subseteq {"v1", "v2"}}

\* A catalog published by a build over some tree, and the tree as it is now:
\* directories may have gone or appeared since. The catalog file may be absent.
InitPrune ==
    /\ \E listed \in VersionSets :
        \/ published = [exists |-> TRUE, products |-> ToJSON(GetProducts(PlainTree(listed), TRUE))]
        \/ /\ listed = [p \in ProductIDs |-> {}]
           /\ published = NoCatalogFile
    /\ \E have \in VersionSets : disk = PlainTree(have)
    /\ retain \in 0..MaxRetain
    /\ ppc = "start"
    /\ pcat = ToJSON(EmptyMap)
    /\ discardVersions = <<>>
    /\ discIdx = 1
    /\ tmpFile = NoTempFile
    /\ pruneErr = "none"
    /\ disk0 = disk
    /\ published0 = published
    /\ removeFailed = {}

\* Lines 70-104 without the check of retain: the catalog is read and every
\* version beyond the first retain ones is discarded.
PruneRetainInvalidSkipped ==
    /\ UNCHANGED notPrune
    /\ ppc = "start"
    /\ retain < 1
    /\ published.exists
    /\ pcat' = DiscardFromCatalog(published.products, retain)
    /\ \E order \in ProductOrders(DOMAIN published.products) :
        discardVersions' = DiscardVersionsIn(published.products, order, retain)
    /\ ppc' = "write"
    /\ UNCHANGED <<disk, published, retain, discIdx, tmpFile, pruneErr, disk0, published0, removeFailed>>

\* Lines 70-72: the retain check.
PruneRetainInvalid ==
    /\ UNCHANGED notPrune
    /\ ppc = "start"
    /\ retain < 1
    /\ ppc' = "failed"
    /\ pruneErr' = "retain"
    /\ UNCHANGED <<disk, published, retain, pcat, discardVersions, discIdx, tmpFile, disk0, published0, removeFailed>>

\* Lines 75-79: <stream>.json cannot be read.
PruneReadFail ==
    /\ UNCHANGED notPrune
    /\ ppc = "start"
    /\ retain >= 1
    /\ ~published.exists
    /\ ppc' = "failed"
    /\ pruneErr' = "read"
    /\ UNCHANGED <<disk, published, retain, pcat, discardVersions, discIdx, tmpFile, disk0, published0, removeFailed>>

\* Lines 75-104: the catalog is read and the versions to discard are deleted
\* from it, their directories collected.
PruneDiscard ==
    /\ UNCHANGED notPrune
    /\ ppc = "start"
    /\ retain >= 1
    /\ published.exists
    /\ pcat' = DiscardFromCatalog(published.products, retain)
    /\ \E order \in ProductOrders(DOMAIN published.products) :
        discardVersions' = DiscardVersionsIn(published.products, order, retain)
    /\ ppc' = "write"
    /\ UNCHANGED <<disk, published, retain, discIdx, tmpFile, pruneErr, disk0, published0, removeFailed>>

\* shared.WriteJSONTempFile: the value is written to a new temporary file.
WriteJSONTempFile(products) == [exists |-> TRUE, products |-> products]

\* Lines 108-113: the temporary file is written and its removal deferred.
PruneWriteTemp ==
    /\ UNCHANGED notPrune
    /\ ppc = "write"
    /\ tmpFile' = WriteJSONTempFile(pcat)
    /\ ppc' = "rename"
    /\ UNCHANGED <<disk, published, retain, pcat, discardVersions, discIdx, pruneErr, disk0, published0, removeFailed>>

\* Lines 108-111: writing the temporary file fails.
PruneWriteTempFail ==
    /\ UNCHANGED notPrune
    /\ ppc = "write"
    /\ ppc' = "failed"
    /\ pruneErr' = "write"
    /\ UNCHANGED <<disk, published, retain, pcat, discardVersions, discIdx, tmpFile, disk0, published0, removeFailed>>

\* Lines 116-119: os.Rename(tmpFile, catalogPath).
PruneRename ==
    /\ UNCHANGED notPrune
    /\ ppc = "rename"
    /\ published' = tmpFile
    /\ tmpFile' = NoTempFile
    /\ ppc' = "chmod"
    /\ UNCHANGED <<disk, retain, pcat, discardVersions, discIdx, pruneErr, disk0, published0, removeFailed>>

\* Lines 116-119 with the error of os.Rename dropped.
PruneRenameFailIgnored ==
    /\ UNCHANGED notPrune
    /\ ppc = "rename"
    /\ ppc' = "remove"
    /\ pruneErr' = "rename"
    /\ UNCHANGED <<disk, published, retain, pcat, discardVersions, discIdx, tmpFile, disk0, published0, removeFailed>>

\* Lines 116-119: os.Rename fails; the deferred os.Remove deletes the temporary file.
PruneRenameFail ==
    /\ UNCHANGED notPrune
    /\ ppc = "rename"
    /\ tmpFile' = NoTempFile
    /\ ppc' = "failed"
    /\ pruneErr' = "rename"
    /\ UNCHANGED <<disk, published, retain, pcat, discardVersions, discIdx, disk0, published0, removeFailed>>

\* Lines 122-125: os.Chmod(catalogPath, 0644).
PruneChmod ==
    /\ UNCHANGED notPrune
    /\ ppc = "chmod"
    /\ ppc' = "remove"
    /\ UNCHANGED <<disk, published, retain, pcat, discardVersions, discIdx, tmpFile, pruneErr, disk0, published0, removeFailed>>

\* Lines 122-125: os.Chmod fails.
PruneChmodFail ==
    /\ UNCHANGED notPrune
    /\ ppc = "chmod"
    /\ ppc' = "failed"
    /\ pruneErr' = "chmod"
    /\ UNCHANGED <<disk, published, retain, pcat, discardVersions, discIdx, tmpFile, disk0, published0, removeFailed>>

\* Lines 132-140: os.RemoveAll of the next collected directory; a path that
\* does not exist is no error.
PruneRemoveAll ==
    /\ UNCHANGED notPrune
    /\ ppc = "remove"
    /\ discIdx <= Len(discardVersions)
    /\ disk' = IF discardVersions[discIdx][2] \in DOMAIN disk[discardVersions[discIdx][1]]
               THEN WithoutDir(disk, discardVersions[discIdx][1], discardVersions[discIdx][2])
               ELSE disk
    /\ discIdx' = discIdx + 1
    /\ UNCHANGED <<published, retain, ppc, pcat, discardVersions, tmpFile, pruneErr, disk0, published0, removeFailed>>

\* Lines 133-137: os.RemoveAll fails; the error is logged and the loop continues.
PruneRemoveAllFail ==
    /\ UNCHANGED notPrune
    /\ ppc = "remove"
    /\ discIdx <= Len(discardVersions)
    /\ discardVersions[discIdx][2] \in DOMAIN disk[discardVersions[discIdx][1]]
    /\ removeFailed' = removeFailed \cup {discardVersions[discIdx]}
    /\ discIdx' = discIdx + 1
    /\ UNCHANGED <<disk, published, retain, ppc, pcat, discardVersions, tmpFile, pruneErr, disk0, published0>>

\* Line 142: return nil.
PruneReturn ==
    /\ UNCHANGED notPrune
    /\ ppc = "remove"
    /\ discIdx > Len(discardVersions)
    /\ ppc' = "done"
    /\ UNCHANGED <<disk, published, retain, pcat, discardVersions, discIdx, tmpFile, pruneErr, disk0, published0, removeFailed>>

NextPrune ==
    \/ PruneRetainInvalid
    \/ PruneReadFail
    \/ PruneDiscard
    \/ PruneWriteTemp
    \/ PruneWriteTempFail
    \/ PruneRename
    \/ PruneRenameFail
    \/ PruneChmod
    \/ PruneChmodFail
    \/ PruneRemoveAll
    \/ PruneRemoveAllFail
    \/ PruneReturn

(***************************************************************************)
(* Claims about pruneStreamProductVersions.                                *)
(***************************************************************************)

\* The directories that were on disk before the prune and are not any more.
RemovedDirs == {pv \in ProductIDs \X PruneVersions : pv[2] \in DOMAIN disk0[pv[1]] /\ pv[2] \notin DOMAIN disk[pv[1]]}

Listed(file, pv) == file.exists /\ pv[1] \in DOMAIN file.products /\ pv[2] \in DOMAIN file.products[pv[1]]

\* C3: no version directory is removed until the rewritten catalog, which
\* does not list it, has replaced <stream>.json; when writing or renaming
\* the catalog fails no directory is removed; and every version the
\* published <stream>.json lists that was on disk before the prune is still
\* on disk.
C3_CatalogRewrittenBeforeRemoval ==
    /\ \A pv \in RemovedDirs :
        /\ published = [exists |-> TRUE, products |-> pcat]
        /\ ~Listed(published, pv)
    /\ (pruneErr \in {"write", "rename"} => RemovedDirs = {})
    /\ \A pv \in ProductIDs \X PruneVersions :
        (Listed(published, pv) /\ pv[2] \in DOMAIN disk0[pv[1]]) => pv[2] \in DOMAIN disk[pv[1]]

\* A prune returned after removing a directory.
C3_Witness ==
    /\ ppc = "done"
    /\ RemovedDirs # {}

\* The k lexicographically largest of a set of version names.
Largest(versions, k) ==
    {v \in versions :
        Cardinality({w \in versions : IndexOf(VersionOrder, w) > IndexOf(VersionOrder, v)}) < k}

\* C6 as stated: after a successful retention prune with retain = k >= 1
\* every product has at most k versions, the kept ones being the min(n, k)
\* lexicographically largest of the n it had, and each discarded version is
\* gone from the catalog and from the filesystem.
C6_DiscardedGoneFromDisk ==
    ppc = "done" =>
        \A p \in DOMAIN published0.products :
            /\ p \in DOMAIN published.products
            /\ Cardinality(DOMAIN published.products[p]) <= retain
            /\ DOMAIN published.products[p] = Largest(DOMAIN published0.products[p], retain)
            /\ \A v \in DOMAIN published0.products[p] \ Largest(DOMAIN published0.products[p], retain) :
                /\ v \notin DOMAIN published.products[p]
                /\ v \notin DOMAIN disk[p]

\* C6 amended: as above, but a discarded version is gone from the
\* filesystem unless its os.RemoveAll failed, which is logged and does not
\* fail the prune.
C6_KeptLargestDiscardedRemoved ==
    ppc = "done" =>
        \A p \in DOMAIN published0.products :
            /\ p \in DOMAIN published.products
            /\ Cardinality(DOMAIN published.products[p]) <= retain
            /\ DOMAIN published.products[p] = Largest(DOMAIN published0.products[p], retain)
            /\ \A v \in DOMAIN published0.products[p] \ Largest(DOMAIN published0.products[p], retain) :
                /\ v \notin DOMAIN published.products[p]
                /\ v \notin DOMAIN disk[p] \/ <<p, v>> \in removeFailed

\* A prune returned after discarding a version of a product with more than
\* retain versions.
C6_Witness ==
    /\ ppc = "done"
    /\ \E p \in DOMAIN published0.products :
        /\ Cardinality(DOMAIN published0.products[p]) > retain
        /\ \E v \in DOMAIN published0.products[p] :
            v \in DOMAIN disk0[p] /\ v \notin DOMAIN disk[p]

\* C15: retention prune never removes a version directory that the catalog
\* it read does not list, and when it succeeds the versions each product
\* keeps are the retain largest of the catalog's versions, whatever other
\* directories the product has on disk.
C15_RetentionReadsOnlyCatalog ==
    /\ \A pv \in RemovedDirs : Listed(published0, pv)
    /\ ppc = "done" =>
        \A p \in DOMAIN published0.products :
            DOMAIN published.products[p] = Largest(DOMAIN published0.products[p], retain)

\* A retention prune succeeded and removed a directory of a product that
\* also has an unlisted directory, named above every version it kept.
C15_Witness ==
    /\ ppc = "done"
    /\ \E pv \in RemovedDirs : \E v \in DOMAIN disk[pv[1]] :
        /\ ~Listed(published0, <<pv[1], v>>)
        /\ \A k \in DOMAIN published.products[pv[1]] : IndexOf(VersionOrder, k) < IndexOf(VersionOrder, v)

\* C25: pruneStreamProductVersions called with retain < 1 returns the error
\* "At least 1 product version must be retained" without reading the
\* catalog: the catalog file and every directory are as they were, and no
\* temporary file was written.
C25_RetainBelowOneChangesNothing ==
    retain < 1 =>
        /\ ppc \in {"start", "failed"}
        /\ ppc = "failed" => pruneErr = "retain"
        /\ pcat = ToJSON(EmptyMap)
        /\ discardVersions = <<>>
        /\ tmpFile = NoTempFile
        /\ published = published0
        /\ disk = disk0

\* The call with retain = 0 has failed on a catalog that lists a version
\* whose directory is on disk.
C25_Witness ==
    /\ retain < 1
    /\ ppc = "failed"
    /\ pruneErr = "retain"
    /\ published.exists
    /\ \E p \in DOMAIN published.products : \E v \in DOMAIN published.products[p] : v \in DOMAIN disk[p]

(***************************************************************************)
(*                 PART 5: one run of the prune command                    *)
(* cmd_prune.go 45-65, 148-222 and 228-269, for one image directory. The   *)
(* dangling prune scans with stream.GetProducts(rootDir, streamName,       *)
(* false), the scanner of stream/stream.go.                                *)
(***************************************************************************)

\* A version directory in which nothing has been uploaded yet.
EmptyDir == [files |-> EmptyMap, sums |-> NoSums, config |-> "none"]

RunDirKinds == [plain |-> UploadKinds.plain, incomplete |-> UploadKinds.incomplete, empty |-> EmptyDir]

\* stream/stream.go GetVersion: the version has lxd.tar.xz and an item of
\* type disk-kvm.img or squashfs; a name starting with '.' is not looked at.
isVersionComplete(dir) ==
    /\ MetadataName \in DOMAIN dir.files
    /\ \E n \in DOMAIN dir.files : HasSuffixExt(n, ItemExtDiskKVM) \/ HasSuffixExt(n, ItemExtSquashfs)

\* stream/stream.go GetProducts and GetProduct: the version names of every
\* product, incomplete versions ignored, products without versions skipped.
GetRawProducts(dsk) ==
    LET versions(p) == {v \in DOMAIN dsk[p] : isVersionComplete(dsk[p][v])}
    IN  [p \in {q \in DOMAIN dsk : versions(q) # {}} |-> versions(p)]

\* Lines 165-168 left out: no catalog counts as empty.
CatalogNeverEmpty(products) == FALSE

\* Line 165: len(catalog.Products) == 0.
CatalogIsEmpty(products) == DOMAIN products = {}

\* Lines 191-219: the paths removeIfOlder is called with: the directory of a
\* scanned product the catalog does not know, and the directories of the
\* scanned versions a known product does not reference.
DanglingPaths(products, catalogProducts) ==
    {<<p>> : p \in DOMAIN products \ DOMAIN catalogProducts}
        \cup UNION {{<<p, v>> : v \in products[p] \ DOMAIN catalogProducts[p]} :
                        p \in DOMAIN products \cap DOMAIN catalogProducts}

\* os.RemoveAll of a product directory or of a version directory.
RemoveAll(dsk, path) ==
    IF Len(path) = 1 THEN [dsk EXCEPT ![path[1]] = NoDirs]
    ELSE WithoutDir(dsk, path[1], path[2])

IsEmptyDir(dir) == DOMAIN dir.files = {} /\ ~dir.sums.exists /\ dir.config = "none"

\* pruneEmptyDirs(args[0], true): every directory without entries is removed.
pruneEmptyDirs(dsk) ==
    [p \in DOMAIN dsk |-> [v \in {w \in DOMAIN dsk[p] : ~IsEmptyDir(dsk[p][w])} |-> dsk[p][v]]]

\* What the catalog lists: up to two versions of the first product, up to
\* one of the others.
RunListed ==
    {l \in [ProductIDs -> SUBSET {"v1", "v2"}] :
        \A p \in ProductIDs \ {FirstProduct} : l[p] \subseteq {"v1"}}

\* The directories a product can have besides the listed ones: none, or one
\* directory, complete, incomplete or still empty; with a hidden name too
\* for the first product.
RunExtras ==
    {e \in [ProductIDs -> {<<>>} \cup ({".v0", "v2", "v3"} \X DOMAIN RunDirKinds)] :
        /\ e[FirstProduct] = <<>> \/ e[FirstProduct][1] \in {".v0", "v3"}
        /\ \A p \in ProductIDs \ {FirstProduct} :
              e[p] = <<>> \/ (e[p][1] = "v2" /\ e[p][2] \in {"plain", "empty"})}

RunTree(listed, extras) ==
    [p \in ProductIDs |->
        [v \in listed[p] \cup (IF extras[p] = <<>> THEN {} ELSE {extras[p][1]}) |->
            IF v \in listed[p] THEN UploadKinds.plain ELSE RunDirKinds[extras[p][2]]]]

\* The ages: any set of product directories and unlisted version
\* directories, and the listed version directories all together or not.
RunAges(listed, extras) ==
    LET listedPaths == UNION {{<<p, v>> : v \in listed[p]} : p \in ProductIDs}
        otherPaths == {<<p>> : p \in ProductIDs}
                          \cup {<<p, extras[p][1]>> : p \in {q \in ProductIDs : extras[q] # <<>>}}
    IN  {o \cup l : o \in SUBSET otherPaths, l \in {{}, listedPaths}}

\* The tree a build has published a catalog of, with the compressed catalog
\* next to it, and the directories that have appeared since. The catalog
\* files may be absent.
InitRun ==
    /\ \E listed \in RunListed, extras \in RunExtras :
        /\ \/ published = [exists |-> TRUE, products |-> ToJSON(GetProducts(PlainTree(listed), TRUE))]
           \/ /\ listed = [p \in ProductIDs |-> {}]
              /\ published = NoCatalogFile
        /\ disk = RunTree(listed, extras)
        /\ stale \in RunAges(listed, extras)
    /\ catalogGz = GZip(published)
    /\ dangling \in BOOLEAN
    /\ retain \in 0..MaxRetain
    /\ rpc = "start"
    /\ dtodo = {}
    /\ derr = "none"
    /\ ppc = "wait"
    /\ pcat = ToJSON(EmptyMap)
    /\ discardVersions = <<>>
    /\ discIdx = 1
    /\ tmpFile = NoTempFile
    /\ pruneErr = "none"
    /\ disk0 = disk
    /\ published0 = published
    /\ removeFailed = {}

\* Lines 51, 58: without --dangling the retention prune is called at once.
RunSkipDangling ==
    /\ UNCHANGED notRun
    /\ rpc = "start"
    /\ ~dangling
    /\ rpc' = "retention"
    /\ ppc' = "start"
    /\ UNCHANGED <<disk, published, retain, pcat, discardVersions, discIdx, tmpFile, pruneErr, disk0, published0, removeFailed>>
    /\ UNCHANGED <<dangling, stale, dtodo, derr, catalogGz>>

\* Lines 150-160 and 52-55: <stream>.json cannot be read; Run returns the error.
DanglingReadFail ==
    /\ UNCHANGED notRun
    /\ rpc = "start"
    /\ dangling
    /\ ~published.exists
    /\ derr' = "err"
    /\ rpc' = "failed"
    /\ UNCHANGED <<disk, published, pruneVars>>
    /\ UNCHANGED <<dangling, stale, dtodo, catalogGz>>

\* Lines 165-168 and 58: the catalog is empty, nothing is removed, and the
\* retention prune is called.
DanglingSkipEmpty ==
    /\ UNCHANGED notRun
    /\ rpc = "start"
    /\ dangling
    /\ published.exists
    /\ CatalogIsEmpty(published.products)
    /\ derr' = "nil"
    /\ rpc' = "retention"
    /\ ppc' = "start"
    /\ UNCHANGED <<disk, published, retain, pcat, discardVersions, discIdx, tmpFile, pruneErr, disk0, published0, removeFailed>>
    /\ UNCHANGED <<dangling, stale, dtodo, catalogGz>>

\* Lines 150-168: the tree is scanned, the catalog read and not empty.
DanglingScan ==
    /\ UNCHANGED notRun
    /\ rpc = "start"
    /\ dangling
    /\ published.exists
    /\ ~CatalogIsEmpty(published.products)
    /\ dtodo' = DanglingPaths(GetRawProducts(disk), published.products)
    /\ rpc' = "dangling"
    /\ UNCHANGED <<disk, published, pruneVars>>
    /\ UNCHANGED <<dangling, stale, derr, catalogGz>>

\* Lines 172-189: removeIfOlder of a path older than 6 hours.
DanglingRemove ==
    /\ UNCHANGED notRun
    /\ rpc = "dangling"
    /\ \E path \in dtodo :
        /\ path \in stale
        /\ disk' = RemoveAll(disk, path)
        /\ dtodo' = dtodo \ {path}
    /\ UNCHANGED <<published, pruneVars>>
    /\ UNCHANGED <<rpc, dangling, stale, derr, catalogGz>>

\* Lines 179-183: os.RemoveAll fails; the error is logged and nil returned.
DanglingRemoveFail ==
    /\ UNCHANGED notRun
    /\ rpc = "dangling"
    /\ \E path \in dtodo :
        /\ path \in stale
        /\ removeFailed' = removeFailed \cup {path}
        /\ dtodo' = dtodo \ {path}
    /\ UNCHANGED <<disk, published, ppc, retain, pcat, discardVersions, discIdx, tmpFile, pruneErr, disk0, published0>>
    /\ UNCHANGED <<rpc, dangling, stale, derr, catalogGz>>

\* Lines 178, 188: removeIfOlder of a path not older than 6 hours.
DanglingKeep ==
    /\ UNCHANGED notRun
    /\ rpc = "dangling"
    /\ \E path \in dtodo :
        /\ path \notin stale
        /\ dtodo' = dtodo \ {path}
    /\ UNCHANGED <<disk, published, pruneVars>>
    /\ UNCHANGED <<rpc, dangling, stale, derr, catalogGz>>

\* Lines 221 and 58: the loop is over and the retention prune is called.
DanglingReturn ==
    /\ UNCHANGED notRun
    /\ rpc = "dangling"
    /\ dtodo = {}
    /\ derr' = "nil"
    /\ rpc' = "retention"
    /\ ppc' = "start"
    /\ UNCHANGED <<disk, published, retain, pcat, discardVersions, discIdx, tmpFile, pruneErr, disk0, published0, removeFailed>>
    /\ UNCHANGED <<dangling, stale, dtodo, catalogGz>>

\* Lines 58-61: the retention prune returned an error.
RunRetentionFail ==
    /\ UNCHANGED notRun
    /\ rpc = "retention"
    /\ ppc = "failed"
    /\ rpc' = "failed"
    /\ UNCHANGED <<disk, published, pruneVars>>
    /\ UNCHANGED <<dangling, stale, dtodo, derr, catalogGz>>

\* Line 64: the retention prune returned nil; the empty directories are swept.
RunPruneEmptyDirs ==
    /\ UNCHANGED notRun
    /\ rpc = "retention"
    /\ ppc = "done"
    /\ disk' = pruneEmptyDirs(disk)
    /\ rpc' = "done"
    /\ UNCHANGED <<published, pruneVars>>
    /\ UNCHANGED <<dangling, stale, dtodo, derr, catalogGz>>

NextRun ==
    \/ RunSkipDangling
    \/ DanglingReadFail
    \/ DanglingSkipEmpty
    \/ DanglingScan
    \/ DanglingRemove
    \/ DanglingRemoveFail
    \/ DanglingKeep
    \/ DanglingReturn
    \/ NextPrune
    \/ RunRetentionFail
    \/ RunPruneEmptyDirs

(***************************************************************************)
(* Claims about the prune command.                                         *)
(***************************************************************************)

\* The dangling prune has returned and the retention prune has not acted yet.
DanglingReturned == derr # "none" /\ (rpc = "failed" \/ ppc = "start")

\* C12: when the dangling prune has returned nil on a catalog that is not
\* empty, a version directory of a product the catalog knows is gone if and
\* only if the catalog does not reference the version and the directory is
\* older than 6 hours (its removal not having failed), whether the version
\* is complete, incomplete or hidden.
C12_DanglingRemovesIffUnreferencedAndOld ==
    (DanglingReturned /\ derr = "nil" /\ ~CatalogIsEmpty(published0.products)) =>
        \A p \in DOMAIN published0.products : \A v \in DOMAIN disk0[p] :
            /\ v \notin DOMAIN disk[p] =>
                  (v \notin DOMAIN published0.products[p] /\ <<p, v>> \in stale)
            /\ (v \notin DOMAIN published0.products[p] /\ <<p, v>> \in stale /\ <<p, v>> \notin removeFailed)
                  => v \notin DOMAIN disk[p]

\* C13: at no point of a prune run is a version directory gone that the
\* catalog does not list and that is not older than 6 hours.
C13_FreshUnreferencedNeverRemoved ==
    \A p \in ProductIDs : \A v \in DOMAIN disk0[p] :
        (~Listed(published0, <<p, v>>) /\ <<p, v>> \notin stale) => v \in DOMAIN disk[p]

GUnzip(gz) == gz.of

\* C20: when a prune run has completed successfully, <stream>.json.gz
\* decompresses to the published <stream>.json.
C20_GzMatchesCatalogAfterPrune ==
    rpc = "done" => GUnzip(catalogGz) = published

(***************************************************************************)
(*                 PART 6: the metadata of a scanned product               *)
(* stream/index.go 352-462 and 655-675. A version directory is what        *)
(* GetVersion finds in it: whether its files make it complete, and the     *)
(* simplestream section of its image.yaml. An alias is the sequence of its *)
(* path segments; a comma-separated list is the sequence of its parts.     *)
(***************************************************************************)

NoFilter == [releases |-> {}, architectures |-> {}, variants |-> {}]

\* The zero value of the image config: the version has no image.yaml.
NoImageConfig == [distroName |-> "", requirements |-> <<>>, releaseAliases |-> EmptyMap]

ImageConfigs ==
    { NoImageConfig,
      [distroName |-> "Ubuntu Core",
       requirements |-> << [filter |-> NoFilter, requirements |-> ("secureboot" :> "false")] >>,
       releaseAliases |-> ("noble" :> <<"24.04", "24">>)],
      [distroName |-> "",
       requirements |-> << [filter |-> [NoFilter EXCEPT !.releases = {"edge"}],
                            requirements |-> ("nesting" :> "true")] >>,
       releaseAliases |-> ("edge" :> <<"latest">>)],
      [distroName |-> "Alpine Linux",
       requirements |-> << [filter |-> NoFilter, requirements |-> ("secureboot" :> "true")],
                           [filter |-> [NoFilter EXCEPT !.variants = {"cloud"}],
                            requirements |-> ("secureboot" :> "false")] >>,
       releaseAliases |-> EmptyMap] }

\* The product paths that are scanned.
ScanParts ==
    { [distro |-> "ubuntu", release |-> "noble", architecture |-> "amd64", variant |-> "cloud"],
      [distro |-> "alpine", release |-> "edge", architecture |-> "amd64", variant |-> "default"] }

ScanVersionNames == {".v0", "v1", "v2"}

\* Lines 655-675.
CreateAliases(distro, release, variant) ==
    << <<distro, release, variant>> >>
        \o (IF release = "current" THEN << <<distro, variant>> >> ELSE <<>>)
        \o (IF variant = "default"
            THEN IF release = "current" THEN << <<distro>> >> ELSE << <<distro, release>> >>
            ELSE <<>>)

\* shared.ApplyFilter: an entry applies when each of its lists is absent or
\* holds the product's value.
ApplyFilter(filter, release, architecture, variant) ==
    /\ filter.releases = {} \/ release \in filter.releases
    /\ filter.architectures = {} \/ architecture \in filter.architectures
    /\ filter.variants = {} \/ variant \in filter.variants

\* Lines 420-428: the requirements of the entries whose filter matches, in
\* order, a later entry overwriting the keys of an earlier one.
RECURSIVE ApplyRequirements(_, _, _)
ApplyRequirements(reqs, entries, parts) ==
    IF entries = <<>> THEN reqs
    ELSE LET req == Head(entries)
             next == IF ApplyFilter(req.filter, parts.release, parts.architecture, parts.variant)
                     THEN [k \in DOMAIN reqs \cup DOMAIN req.requirements |->
                              IF k \in DOMAIN req.requirements THEN req.requirements[k] ELSE reqs[k]]
                     ELSE reqs
         IN  ApplyRequirements(next, Tail(entries), parts)

\* Lines 431-440: the aliases of the release aliases of the product's release.
RECURSIVE ReleaseAliases(_, _)
ReleaseAliases(names, parts) ==
    IF names = <<>> THEN <<>>
    ELSE CreateAliases(parts.distro, Head(names), parts.variant) \o ReleaseAliases(Tail(names), parts)

\* Lines 411-441: the image config of a complete version replaces what the
\* versions before it have set.
ApplyImageConfig(acc, config, parts) ==
    [acc EXCEPT
        !.osName = config.distroName,
        !.requirements = ApplyRequirements(EmptyMap, config.requirements, parts),
        !.aliases = IF parts.release \in DOMAIN config.releaseAliases
                    THEN ReleaseAliases(config.releaseAliases[parts.release], parts)
                    ELSE <<>>]

\* stream.GetVersion as GetProduct sees it (472-476, 566-568): a hidden
\* name, or an incomplete file set, is ErrVersionIncomplete unless incomplete
\* versions are included; the incomplete flag comes from the files alone.
ScanGetVersion(name, dir, includeIncomplete) ==
    IF IsHidden(name) /\ ~includeIncomplete THEN [err |-> "incomplete"]
    ELSE IF dir.incomplete /\ ~includeIncomplete THEN [err |-> "incomplete"]
    ELSE [err |-> "", incomplete |-> dir.incomplete, imageConfig |-> dir.config]

\* Lines 391-449: the loop over the entries of the product directory, which
\* os.ReadDir returns sorted by name.
RECURSIVE ScanLoop(_, _, _, _, _)
ScanLoop(acc, names, dirs, includeIncomplete, parts) ==
    IF names = <<>> THEN acc
    ELSE LET r == ScanGetVersion(Head(names), dirs[Head(names)], includeIncomplete)
             applied == IF r.err = "" /\ ~r.incomplete
                        THEN ApplyImageConfig(acc, r.imageConfig, parts)
                        ELSE acc
             next == IF r.err = ""
                     THEN [applied EXCEPT !.versions = @ \cup {Head(names)}]
                     ELSE acc
         IN  ScanLoop(next, Tail(names), dirs, includeIncomplete, parts)

\* cases.Title(language.English).String(p.Distro), tabulated.
Title(distro) == CASE distro = "ubuntu" -> "Ubuntu" [] distro = "alpine" -> "Alpine"

\* Lines 373-461: the Product that GetProduct returns for the directories.
ScanProduct(dirs, includeIncomplete, parts) ==
    LET acc == ScanLoop([aliases |-> <<>>, requirements |-> EmptyMap, osName |-> "", versions |-> {}],
                        SortVersions(DOMAIN dirs), dirs, includeIncomplete, parts)
    IN  [aliases |-> CreateAliases(parts.distro, parts.release, parts.variant) \o acc.aliases,
         requirements |-> acc.requirements,
         os |-> IF acc.osName # "" THEN acc.osName ELSE Title(parts.distro),
         versions |-> acc.versions]

NoProduct == [aliases |-> <<>>, requirements |-> EmptyMap, os |-> "", versions |-> {}]

InitScan ==
    /\ spc = "ready"
    /\ sparts \in ScanParts
    /\ \E names \in SUBSET ScanVersionNames :
        sdirs \in [names -> [incomplete : BOOLEAN, config : ImageConfigs]]
    /\ sinclude \in BOOLEAN
    /\ sproduct = NoProduct

\* GetProduct(rootDir, productRelPath, options...) returns the product.
GetProductCall ==
    /\ UNCHANGED notScan
    /\ spc = "ready"
    /\ sproduct' = ScanProduct(sdirs, sinclude, sparts)
    /\ spc' = "done"
    /\ UNCHANGED <<sparts, sdirs, sinclude>>

NextScan == GetProductCall

(***************************************************************************)
(* Claims about stream.GetProduct.                                         *)
(***************************************************************************)

\* The complete versions of the scanned directory: the file set is complete
\* and the name is not hidden (a hidden version is treated as incomplete).
CompleteVersions == {v \in DOMAIN sdirs : ~sdirs[v].incomplete /\ v # ".v0"}

\* C23: the requirements, the release aliases and the OS name of the product
\* GetProduct returns are the ones of the image config of the complete
\* version with the largest name, and the defaults when no version is
\* complete; no older version and no incomplete version contributes.
C23_MetadataFromLastCompleteVersion ==
    spc = "done" =>
        LET last == SortVersions(CompleteVersions)[Cardinality(CompleteVersions)]
            config == IF CompleteVersions = {} THEN NoImageConfig ELSE sdirs[last].config
        IN  /\ sproduct.requirements = ApplyRequirements(EmptyMap, config.requirements, sparts)
            /\ sproduct.aliases =
                  CreateAliases(sparts.distro, sparts.release, sparts.variant)
                      \o (IF sparts.release \in DOMAIN config.releaseAliases
                          THEN ReleaseAliases(config.releaseAliases[sparts.release], sparts)
                          ELSE <<>>)
            /\ sproduct.os = IF config.distroName # "" THEN config.distroName ELSE Title(sparts.distro)

(***************************************************************************)
(*                 PART 7: the sweep of empty directories                  *)
(* cmd_prune.go 228-269 on a tree of nested directories. A path is the     *)
(* sequence of its segments below the temporary root, which is <<>>; the   *)
(* tree is the set of its directories and the set of its files.            *)
(***************************************************************************)

MaxDepth == 3

NameOrder == <<"a", "b">>

\* The trees with the node at path p absent, a file, or a directory with up
\* to d levels beneath it.
RECURSIVE SubTrees(_, _)
SubTrees(p, d) ==
    {[dirs |-> {}, files |-> {}], [dirs |-> {}, files |-> {p}]}
        \cup (IF d = 0
              THEN {[dirs |-> {p}, files |-> {}]}
              ELSE {[dirs |-> {p} \cup ca.dirs \cup cb.dirs, files |-> ca.files \cup cb.files] :
                        ca \in SubTrees(Append(p, "a"), d - 1),
                        cb \in SubTrees(Append(p, "b"), d - 1)})

SweepTrees ==
    {[dirs |-> {<<>>} \cup ta.dirs \cup tb.dirs, files |-> ta.files \cup tb.files] :
        ta \in SubTrees(<<"a">>, MaxDepth - 1), tb \in SubTrees(<<"b">>, 0)}

\* The path arguments: clean ones, and ones with empty segments, "." and
\* "..".
SweepBaseDirs ==
    { <<>>, <<"a">>, <<"b">>, <<"", "a", "">>, <<".", "a", ".", "a">>,
      <<"a", "a", "..">>, <<"a", "..", "a", "a">> }

\* filepath.Clean on a rooted path: empty segments and "." go away, ".."
\* takes the segment before it away.
RECURSIVE CleanFrom(_, _)
CleanFrom(acc, rest) ==
    IF rest = <<>> THEN acc
    ELSE LET seg == Head(rest)
             next == IF seg \in {"", "."} THEN acc
                     ELSE IF seg = ".."
                          THEN IF acc = <<>> THEN acc ELSE SubSeq(acc, 1, Len(acc) - 1)
                          ELSE Append(acc, seg)
         IN  CleanFrom(next, Tail(rest))

Clean(path) == CleanFrom(<<>>, path)

\* os.ReadDir: the names of the entries of a directory.
Entries(fs, dir) == {n \in Range(NameOrder) : Append(dir, n) \in fs.dirs \cup fs.files}

\* Lines 258-266 with keepBaseDir ignored.
RemoveIfEmptyIgnoresKeep(fs, base, keepBaseDir, failing) ==
    IF Entries(fs, base) = {}
    THEN IF base \in failing
         THEN [fs |-> fs, err |-> "remove"]
         ELSE [fs |-> [fs EXCEPT !.dirs = @ \ {base}], err |-> ""]
    ELSE [fs |-> fs, err |-> ""]

\* Lines 258-268: the directory is removed when it has no entry and is not
\* the base directory that is kept.
RemoveIfEmpty(fs, base, keepBaseDir, failing) ==
    IF ~keepBaseDir /\ Entries(fs, base) = {}
    THEN IF base \in failing
         THEN [fs |-> fs, err |-> "remove"]
         ELSE [fs |-> [fs EXCEPT !.dirs = @ \ {base}], err |-> ""]
    ELSE [fs |-> fs, err |-> ""]

RECURSIVE pruneEmptyDirsAt(_, _, _, _)
RECURSIVE PruneChildren(_, _, _, _)

\* Lines 239-249: the entries in the order of os.ReadDir; a file is passed
\* over, a directory is swept, and the first error ends the loop.
PruneChildren(fs, base, names, failing) ==
    IF names = <<>> THEN [fs |-> fs, err |-> ""]
    ELSE LET child == Append(base, Head(names))
         IN  IF child \notin fs.dirs
             THEN PruneChildren(fs, base, Tail(names), failing)
             ELSE LET r == pruneEmptyDirsAt(fs, child, FALSE, failing)
                  IN  IF r.err # "" THEN r
                      ELSE PruneChildren(r.fs, base, Tail(names), failing)

\* pruneEmptyDirs(baseDir, keepBaseDir), lines 228-269.
pruneEmptyDirsAt(fs, dir, keepBaseDir, failing) ==
    LET base == Clean(dir)
    IN  IF base \notin fs.dirs
        THEN [fs |-> fs, err |-> "readdir"]
        ELSE LET r == PruneChildren(fs, base,
                                    SelectSeq(NameOrder, LAMBDA n : n \in Entries(fs, base)),
                                    failing)
             IN  IF r.err # "" THEN r
                 ELSE RemoveIfEmpty(r.fs, base, keepBaseDir, failing)

InitSweep ==
    /\ wpc = "ready"
    /\ tree \in SweepTrees
    /\ baseDir \in SweepBaseDirs
    /\ rmFail \in {{}, {<<"a", "a">>}, {<<"a", "b">>}}
    /\ swept = tree
    /\ sweepErr = ""

\* pruneEmptyDirs(args[0], true), as Run and the tests call it.
PruneEmptyDirsCall ==
    /\ UNCHANGED notSweep
    /\ wpc = "ready"
    /\ LET r == pruneEmptyDirsAt(tree, baseDir, TRUE, rmFail)
       IN  /\ swept' = r.fs
           /\ sweepErr' = r.err
    /\ wpc' = "done"
    /\ UNCHANGED <<tree, baseDir, rmFail>>

NextSweep == PruneEmptyDirsCall

(***************************************************************************)
(* Claims about pruneEmptyDirs.                                            *)
(***************************************************************************)

IsPrefix(p, q) == Len(p) <= Len(q) /\ SubSeq(q, 1, Len(p)) = p

\* The directory the operating system reaches by walking the path segment
\* by segment; ok is FALSE when a segment names no directory.
RECURSIVE Walk(_, _, _)
Walk(fs, cur, rest) ==
    IF rest = <<>> THEN [ok |-> TRUE, path |-> cur]
    ELSE LET seg == Head(rest)
         IN  IF seg \in {"", "."} THEN Walk(fs, cur, Tail(rest))
             ELSE IF seg = ".."
                  THEN Walk(fs, IF cur = <<>> THEN cur ELSE SubSeq(cur, 1, Len(cur) - 1), Tail(rest))
                  ELSE IF Append(cur, seg) \in fs.dirs
                       THEN Walk(fs, Append(cur, seg), Tail(rest))
                       ELSE [ok |-> FALSE, path |-> cur]

\* The directories of the tree that the sweep below root must leave: the
\* root, what is not below it, and what has a file somewhere beneath it.
SweepKeeps(root) ==
    {d \in tree.dirs : \/ ~IsPrefix(root, d)
                       \/ d = root
                       \/ \E f \in tree.files : IsPrefix(d, f)}

\* C24: pruneEmptyDirs with keepBaseDir = true never removes a file, the
\* root, or a directory with a file somewhere beneath it; when it returns
\* no error it has removed exactly the directories below the root whose
\* subtree holds no file; and the outcome for a path is the outcome for the
\* normalized path, which is the directory the path leads to.
C24_SweepRemovesExactlyEmptySubtrees ==
    wpc = "done" =>
        LET root == Clean(baseDir)
        IN  /\ swept.files = tree.files
            /\ swept.dirs \subseteq tree.dirs
            /\ SweepKeeps(root) \subseteq swept.dirs
            /\ sweepErr = "" => swept.dirs = SweepKeeps(root)
            /\ [fs |-> swept, err |-> sweepErr] = pruneEmptyDirsAt(tree, root, TRUE, rmFail)
            /\ Walk(tree, <<>>, baseDir).ok => Walk(tree, <<>>, baseDir).path = root

\* The sweep of a path that is not normalized has removed a chain of empty
\* directories and kept a directory with a file beneath it and the empty
\* root.
C24_Witness ==
    /\ wpc = "done"
    /\ sweepErr = ""
    /\ baseDir # Clean(baseDir)
    /\ Cardinality(tree.dirs \ swept.dirs) >= 2
    /\ \E d \in swept.dirs : d # Clean(baseDir) /\ IsPrefix(Clean(baseDir), d)
    /\ Clean(baseDir) \in swept.dirs

(***************************************************************************)
(*          PART 8: the job phases, statement by statement                 *)
(* cmd_build.go 653-880 for one product that the catalog does not hold     *)
(* yet. A job is the version it is about and, for a delta job, the type of *)
(* the item the delta is made of. A goroutine's position names the         *)
(* statement it executes next.                                             *)
(***************************************************************************)

\* The zero value of sync.Mutex (654): nobody holds it.
JFree == 0

\* The goroutine of buildProductCatalog; the workers are 1, 2, ...
JOrch == MaxWorkers + 1

NoJob == [phase |-> 0, version |-> "", item |-> ""]

NewVersionJobOf(v) == [phase |-> 1, version |-> v, item |-> ""]

DeltaJobOf(v, item) == [phase |-> 2, version |-> v, item |-> item]

\* make(chan func(), workers) after workers < 1 was raised to 1 (656-662).
JCap == NumWorkers(jworkers)

\* The orders in which a range loop may visit the keys of a map.
RangeOrders(keys) == {o \in [1..Cardinality(keys) -> keys] : Range(o) = keys}

JWorkerIds == DOMAIN jthr

JRunning == {w \in JWorkerIds : jthr[w].job # NoJob}

InitJobs ==
    /\ jpc = "lock"
    /\ jworkers \in 0..MaxWorkers
    /\ jjobs = <<>>
    /\ jclosed = FALSE
    /\ jwg = 0
    /\ jmutex = JFree
    /\ jthr = [w \in 1..NumWorkers(jworkers) |-> [pc |-> "select", job |-> NoJob]]
    /\ jctx = FALSE
    /\ jcrashed = FALSE
    /\ jtodo = <<>>
    /\ jtargets = <<>>
    /\ \/ jdisk = {"v1", "v2"} /\ jitemset = {ItemTypeSquashfs, ItemTypeDiskKVM}
       \/ jdisk = {"v1", "v2", "v3"} /\ jitemset = {ItemTypeSquashfs}
    /\ jhasSums \in BOOLEAN
    /\ jversions = {}
    /\ \/ jitems = [v \in jdisk |-> {}]
       \/ jitems = [v \in jdisk |-> IF v = "v1" THEN {} ELSE jitemset]
    /\ jsums = [v \in jdisk |-> IF jhasSums THEN jitems[v] ELSE {}]
    /\ jstat = EmptyMap

\* The context is cancelled.
JCancel ==
    /\ UNCHANGED notJobs
    /\ ~jcrashed
    /\ jpc # "returned"
    /\ ~jctx
    /\ jctx' = TRUE
    /\ UNCHANGED <<jpc, jworkers, jjobs, jclosed, jwg, jmutex, jthr, jcrashed, jtodo, jtargets, jdisk, jitemset, jhasSums, jversions, jitems, jsums, jstat>>

\* Line 691: mutex.Lock() of the orchestrator.
JOrchLock ==
    /\ UNCHANGED notJobs
    /\ ~jcrashed
    /\ jpc = "lock"
    /\ jmutex = JFree
    /\ jmutex' = JOrch
    /\ jpc' = "store"
    /\ UNCHANGED <<jworkers, jjobs, jclosed, jwg, jthr, jctx, jcrashed, jtodo, jtargets, jdisk, jitemset, jhasSums, jversions, jitems, jsums, jstat>>

\* Lines 692-707: catalog.Products[id] = tmp, mutex.Unlock(), and the range
\* over p.Versions starts.
JOrchStore ==
    /\ UNCHANGED notJobs
    /\ ~jcrashed
    /\ jpc = "store"
    /\ jmutex' = JFree
    /\ jtodo' \in RangeOrders(jdisk)
    /\ jpc' = "add1"
    /\ UNCHANGED <<jworkers, jjobs, jclosed, jwg, jthr, jctx, jcrashed, jtargets, jdisk, jitemset, jhasSums, jversions, jitems, jsums, jstat>>

\* Line 709: wg.Add(1) for the next version.
JOrchAdd1 ==
    /\ UNCHANGED notJobs
    /\ ~jcrashed
    /\ jpc = "add1"
    /\ jtodo # <<>>
    /\ jwg' = jwg + 1
    /\ jpc' = "send1"
    /\ UNCHANGED <<jworkers, jjobs, jclosed, jmutex, jthr, jctx, jcrashed, jtodo, jtargets, jdisk, jitemset, jhasSums, jversions, jitems, jsums, jstat>>

\* A send that does not wait for room in the channel.
JOrchSend1Unbounded ==
    /\ UNCHANGED notJobs
    /\ ~jcrashed
    /\ jpc = "send1"
    /\ jjobs' = Append(jjobs, NewVersionJobOf(Head(jtodo)))
    /\ jstat' = (NewVersionJobOf(Head(jtodo)) :> [ran |-> 0, fin |-> FALSE]) @@ jstat
    /\ jtodo' = Tail(jtodo)
    /\ jpc' = "add1"
    /\ UNCHANGED <<jworkers, jclosed, jwg, jmutex, jthr, jctx, jcrashed, jtargets, jdisk, jitemset, jhasSums, jversions, jitems, jsums>>

\* Line 710: jobs <- func() {...} of a new-version job; it blocks while the
\* buffer is full.
JOrchSend1 ==
    /\ UNCHANGED notJobs
    /\ ~jcrashed
    /\ jpc = "send1"
    /\ Len(jjobs) < JCap
    /\ jjobs' = Append(jjobs, NewVersionJobOf(Head(jtodo)))
    /\ jstat' = (NewVersionJobOf(Head(jtodo)) :> [ran |-> 0, fin |-> FALSE]) @@ jstat
    /\ jtodo' = Tail(jtodo)
    /\ jpc' = "add1"
    /\ UNCHANGED <<jworkers, jclosed, jwg, jmutex, jthr, jctx, jcrashed, jtargets, jdisk, jitemset, jhasSums, jversions, jitems, jsums>>

\* The loops of lines 684-750 are over.
JOrchLoopEnd1 ==
    /\ UNCHANGED notJobs
    /\ ~jcrashed
    /\ jpc = "add1"
    /\ jtodo = <<>>
    /\ jpc' = "wait1"
    /\ UNCHANGED <<jworkers, jjobs, jclosed, jwg, jmutex, jthr, jctx, jcrashed, jtodo, jtargets, jdisk, jitemset, jhasSums, jversions, jitems, jsums, jstat>>

\* The targets of the loop at 776: every version but the oldest, in the
\* order of the sorted names; none when fewer than two versions are there.
JTargets(versions) ==
    IF Cardinality(versions) < 2 THEN <<>> ELSE Tail(SortVersions(versions))

\* Phase 2 starts without waiting for the jobs of phase 1.
JOrchWait1NoWait ==
    /\ UNCHANGED notJobs
    /\ ~jcrashed
    /\ jpc = "wait1"
    /\ jtargets' = JTargets(jversions)
    /\ jpc' = IF jtargets' = <<>> THEN "rangeEnd" ELSE "target"
    /\ UNCHANGED <<jworkers, jjobs, jclosed, jwg, jmutex, jthr, jctx, jcrashed, jtodo, jdisk, jitemset, jhasSums, jversions, jitems, jsums, jstat>>

\* Lines 754-771: wg.Wait() returns; the range over catalog.Products
\* starts, the names of the versions are read and sorted.
JOrchWait1 ==
    /\ UNCHANGED notJobs
    /\ ~jcrashed
    /\ jpc = "wait1"
    /\ jwg = 0
    /\ jtargets' = JTargets(jversions)
    /\ jpc' = IF jtargets' = <<>> THEN "rangeEnd" ELSE "target"
    /\ UNCHANGED <<jworkers, jjobs, jclosed, jwg, jmutex, jthr, jctx, jcrashed, jtodo, jdisk, jitemset, jhasSums, jversions, jitems, jsums, jstat>>

\* Lines 776-781: targetVersion := product.Versions[targetVerName], and the
\* range over targetVersion.Items starts.
JOrchTarget ==
    /\ UNCHANGED notJobs
    /\ ~jcrashed
    /\ jpc = "target"
    /\ jtodo' \in RangeOrders(jitemset)
    /\ jpc' = "next"
    /\ UNCHANGED <<jworkers, jjobs, jclosed, jwg, jmutex, jthr, jctx, jcrashed, jtargets, jdisk, jitemset, jhasSums, jversions, jitems, jsums, jstat>>

\* Lines 781-787: the range over targetVersion.Items moves on: to the next
\* item a delta is made of, with wg.Add(1), or to its end.
JOrchNext ==
    /\ UNCHANGED notJobs
    /\ ~jcrashed
    /\ jpc = "next"
    /\ IF jtodo # <<>>
       THEN /\ jwg' = jwg + 1
            /\ jpc' = "send2"
            /\ UNCHANGED jtargets
       ELSE /\ jtargets' = Tail(jtargets)
            /\ jpc' = IF jtargets' = <<>> THEN "rangeEnd" ELSE "target"
            /\ UNCHANGED jwg
    /\ UNCHANGED <<jworkers, jjobs, jclosed, jmutex, jthr, jctx, jcrashed, jtodo, jdisk, jitemset, jhasSums, jversions, jitems, jsums, jstat>>

\* Line 788: jobs <- func() {...} of a delta job; it blocks while the buffer
\* is full.
JOrchSend2 ==
    /\ UNCHANGED notJobs
    /\ ~jcrashed
    /\ jpc = "send2"
    /\ Len(jjobs) < JCap
    /\ jjobs' = Append(jjobs, DeltaJobOf(Head(jtargets), Head(jtodo)))
    /\ jstat' = (DeltaJobOf(Head(jtargets), Head(jtodo)) :> [ran |-> 0, fin |-> FALSE]) @@ jstat
    /\ jtodo' = Tail(jtodo)
    /\ jpc' = "next"
    /\ UNCHANGED <<jworkers, jclosed, jwg, jmutex, jthr, jctx, jcrashed, jtargets, jdisk, jitemset, jhasSums, jversions, jitems, jsums>>

\* Line 763: the range over catalog.Products finds no further product.
JOrchRangeEnd ==
    /\ UNCHANGED notJobs
    /\ ~jcrashed
    /\ jpc = "rangeEnd"
    /\ jpc' = "wait2"
    /\ UNCHANGED <<jworkers, jjobs, jclosed, jwg, jmutex, jthr, jctx, jcrashed, jtodo, jtargets, jdisk, jitemset, jhasSums, jversions, jitems, jsums, jstat>>

\* Lines 877-879 and 663: wg.Wait() returns, the catalog is returned and the
\* deferred close(jobs) runs.
JOrchReturn ==
    /\ UNCHANGED notJobs
    /\ ~jcrashed
    /\ jpc = "wait2"
    /\ jwg = 0
    /\ jpc' = "returned"
    /\ jclosed' = TRUE
    /\ UNCHANGED <<jworkers, jjobs, jwg, jmutex, jthr, jctx, jcrashed, jtodo, jtargets, jdisk, jitemset, jhasSums, jversions, jitems, jsums, jstat>>

\* Lines 670-671: case <-ctx.Done(): return.
JWorkerCtxDone(w) ==
    /\ UNCHANGED notJobs
    /\ ~jcrashed
    /\ jthr[w].pc = "select"
    /\ jctx
    /\ jthr' = [jthr EXCEPT ![w].pc = "exited"]
    /\ UNCHANGED <<jpc, jworkers, jjobs, jclosed, jwg, jmutex, jctx, jcrashed, jtodo, jtargets, jdisk, jitemset, jhasSums, jversions, jitems, jsums, jstat>>

\* Lines 672-677: case job, ok := <-jobs with ok; job() starts.
JWorkerTake(w) ==
    /\ UNCHANGED notJobs
    /\ ~jcrashed
    /\ jthr[w].pc = "select"
    /\ jjobs # <<>>
    /\ jthr' = [jthr EXCEPT ![w] = [pc |-> IF Head(jjobs).phase = 1 THEN "getVersion" ELSE "readItems",
                                    job |-> Head(jjobs)]]
    /\ jstat' = [jstat EXCEPT ![Head(jjobs)].ran = @ + 1]
    /\ jjobs' = Tail(jjobs)
    /\ UNCHANGED <<jpc, jworkers, jclosed, jwg, jmutex, jctx, jcrashed, jtodo, jtargets, jdisk, jitemset, jhasSums, jversions, jitems, jsums>>

\* Lines 672-675: case job, ok := <-jobs with !ok: the channel is closed and
\* empty.
JWorkerClosed(w) ==
    /\ UNCHANGED notJobs
    /\ ~jcrashed
    /\ jthr[w].pc = "select"
    /\ jclosed
    /\ jjobs = <<>>
    /\ jthr' = [jthr EXCEPT ![w].pc = "exited"]
    /\ UNCHANGED <<jpc, jworkers, jjobs, jclosed, jwg, jmutex, jctx, jcrashed, jtodo, jtargets, jdisk, jitemset, jhasSums, jversions, jitems, jsums, jstat>>

\* Lines 714-741: GetVersion and the verification of the checksums pass.
JGetVersionOk(w) ==
    /\ UNCHANGED notJobs
    /\ ~jcrashed
    /\ jthr[w].pc = "getVersion"
    /\ jthr' = [jthr EXCEPT ![w].pc = "lockVersion"]
    /\ UNCHANGED <<jpc, jworkers, jjobs, jclosed, jwg, jmutex, jctx, jcrashed, jtodo, jtargets, jdisk, jitemset, jhasSums, jversions, jitems, jsums, jstat>>

\* Lines 716-719, 736-739: GetVersion fails or a checksum does not match;
\* the job returns.
JGetVersionFail(w) ==
    /\ UNCHANGED notJobs
    /\ ~jcrashed
    /\ jthr[w].pc = "getVersion"
    /\ jthr' = [jthr EXCEPT ![w].pc = "done"]
    /\ UNCHANGED <<jpc, jworkers, jjobs, jclosed, jwg, jmutex, jctx, jcrashed, jtodo, jtargets, jdisk, jitemset, jhasSums, jversions, jitems, jsums, jstat>>

\* mutex.Lock() of a job: lines 743, 861 and 867.
JLock(w) ==
    /\ UNCHANGED notJobs
    /\ ~jcrashed
    /\ jthr[w].pc \in {"lockVersion", "lockSums", "lockItems"}
    /\ jmutex = JFree
    /\ jmutex' = w
    /\ jthr' = [jthr EXCEPT ![w].pc = CASE @ = "lockVersion" -> "storeVersion"
                                        [] @ = "lockSums" -> "storeSum"
                                        [] @ = "lockItems" -> "storeItem"]
    /\ UNCHANGED <<jpc, jworkers, jjobs, jclosed, jwg, jctx, jcrashed, jtodo, jtargets, jdisk, jitemset, jhasSums, jversions, jitems, jsums, jstat>>

\* Lines 744-745: catalog.Products[id].Versions[versionName] = *version and
\* mutex.Unlock().
JStoreVersion(w) ==
    /\ UNCHANGED notJobs
    /\ ~jcrashed
    /\ jthr[w].pc = "storeVersion"
    /\ jversions' = jversions \cup {jthr[w].job.version}
    /\ jmutex' = JFree
    /\ jthr' = [jthr EXCEPT ![w].pc = "done"]
    /\ UNCHANGED <<jpc, jworkers, jjobs, jclosed, jwg, jctx, jcrashed, jtodo, jtargets, jdisk, jitemset, jhasSums, jitems, jsums, jstat>>

\* Lines 792-803: deltaItem, deltaExists := targetVersion.Items[deltaName],
\* read without the mutex. A delta the map holds has its hash; the job has
\* nothing to do.
JReadItems(w) ==
    /\ UNCHANGED notJobs
    /\ ~jcrashed
    /\ jthr[w].pc = "readItems"
    /\ jthr' = [jthr EXCEPT ![w].pc = IF jthr[w].job.item \in jitems[jthr[w].job.version]
                                      THEN "done" ELSE "diff"]
    /\ UNCHANGED <<jpc, jworkers, jjobs, jclosed, jwg, jmutex, jctx, jcrashed, jtodo, jtargets, jdisk, jitemset, jhasSums, jversions, jitems, jsums, jstat>>

\* Lines 804-846: the source is there, xdelta3 succeeds and GetItem returns
\* the delta with its hash.
JDiffOk(w) ==
    /\ UNCHANGED notJobs
    /\ ~jcrashed
    /\ jthr[w].pc = "diff"
    /\ jthr' = [jthr EXCEPT ![w].pc = "readSums"]
    /\ UNCHANGED <<jpc, jworkers, jjobs, jclosed, jwg, jmutex, jctx, jcrashed, jtodo, jtargets, jdisk, jitemset, jhasSums, jversions, jitems, jsums, jstat>>

\* Lines 810-818, 826-830, 842-845: the source is missing, xdelta3 fails or
\* is killed, or GetItem fails; the job returns.
JDiffFail(w) ==
    /\ UNCHANGED notJobs
    /\ ~jcrashed
    /\ jthr[w].pc = "diff"
    /\ jthr' = [jthr EXCEPT ![w].pc = "done"]
    /\ UNCHANGED <<jpc, jworkers, jjobs, jclosed, jwg, jmutex, jctx, jcrashed, jtodo, jtargets, jdisk, jitemset, jhasSums, jversions, jitems, jsums, jstat>>

\* Lines 850-851: _, ok := targetVersion.Checksums[deltaName] and
\* len(targetVersion.Checksums), read without the mutex.
JReadSums(w) ==
    /\ UNCHANGED notJobs
    /\ ~jcrashed
    /\ jthr[w].pc = "readSums"
    /\ jthr' = [jthr EXCEPT ![w].pc = IF jthr[w].job.item \notin jsums[jthr[w].job.version] /\ jhasSums
                                      THEN "open" ELSE "lockItems"]
    /\ UNCHANGED <<jpc, jworkers, jjobs, jclosed, jwg, jmutex, jctx, jcrashed, jtodo, jtargets, jdisk, jitemset, jhasSums, jversions, jitems, jsums, jstat>>

\* shared.AppendToFile, vm.go 1360: os.OpenFile(path, O_APPEND|O_WRONLY).
JAppendOpen(w) ==
    /\ UNCHANGED notJobs
    /\ ~jcrashed
    /\ jthr[w].pc = "open"
    /\ jthr' = [jthr EXCEPT ![w].pc = "write"]
    /\ UNCHANGED <<jpc, jworkers, jjobs, jclosed, jwg, jmutex, jctx, jcrashed, jtodo, jtargets, jdisk, jitemset, jhasSums, jversions, jitems, jsums, jstat>>

\* vm.go 1365-1372: file.WriteString(content) and the deferred file.Close().
JAppendWrite(w) ==
    /\ UNCHANGED notJobs
    /\ ~jcrashed
    /\ jthr[w].pc = "write"
    /\ jthr' = [jthr EXCEPT ![w].pc = "lockSums"]
    /\ UNCHANGED <<jpc, jworkers, jjobs, jclosed, jwg, jmutex, jctx, jcrashed, jtodo, jtargets, jdisk, jitemset, jhasSums, jversions, jitems, jsums, jstat>>

\* Lines 854-858: AppendToFile returns an error; the job returns.
JAppendFail(w) ==
    /\ UNCHANGED notJobs
    /\ ~jcrashed
    /\ jthr[w].pc \in {"open", "write"}
    /\ jthr' = [jthr EXCEPT ![w].pc = "done"]
    /\ UNCHANGED <<jpc, jworkers, jjobs, jclosed, jwg, jmutex, jctx, jcrashed, jtodo, jtargets, jdisk, jitemset, jhasSums, jversions, jitems, jsums, jstat>>

\* Lines 862-863: ...Checksums[deltaName] = deltaItem.SHA256 and
\* mutex.Unlock().
JStoreSum(w) ==
    /\ UNCHANGED notJobs
    /\ ~jcrashed
    /\ jthr[w].pc = "storeSum"
    /\ jsums' = [jsums EXCEPT ![jthr[w].job.version] = @ \cup {jthr[w].job.item}]
    /\ jmutex' = JFree
    /\ jthr' = [jthr EXCEPT ![w].pc = "lockItems"]
    /\ UNCHANGED <<jpc, jworkers, jjobs, jclosed, jwg, jctx, jcrashed, jtodo, jtargets, jdisk, jitemset, jhasSums, jversions, jitems, jstat>>

\* Lines 868-869: ...Items[deltaName] = *deltaItem and mutex.Unlock().
JStoreItem(w) ==
    /\ UNCHANGED notJobs
    /\ ~jcrashed
    /\ jthr[w].pc = "storeItem"
    /\ jitems' = [jitems EXCEPT ![jthr[w].job.version] = @ \cup {jthr[w].job.item}]
    /\ jmutex' = JFree
    /\ jthr' = [jthr EXCEPT ![w].pc = "done"]
    /\ UNCHANGED <<jpc, jworkers, jjobs, jclosed, jwg, jctx, jcrashed, jtodo, jtargets, jdisk, jitemset, jhasSums, jversions, jsums, jstat>>

\* Lines 712 and 789: the job returns and its deferred wg.Done() runs.
JJobDone(w) ==
    /\ UNCHANGED notJobs
    /\ ~jcrashed
    /\ jthr[w].pc = "done"
    /\ jwg' = jwg - 1
    /\ jstat' = [jstat EXCEPT ![jthr[w].job].fin = TRUE]
    /\ jthr' = [jthr EXCEPT ![w] = [pc |-> "select", job |-> NoJob]]
    /\ UNCHANGED <<jpc, jworkers, jjobs, jclosed, jmutex, jctx, jcrashed, jtodo, jtargets, jdisk, jitemset, jhasSums, jversions, jitems, jsums>>

\* The map accesses of the statement the orchestrator executes next: the
\* map, and whether it is written.
JOrchAccess ==
    CASE jpc = "store" -> {<<"products", TRUE>>, <<"versions", FALSE>>}
      [] jpc = "target" -> {<<"versions", FALSE>>}
      [] jpc = "next" -> {<<"items", Head(jtargets), FALSE>>}
      [] jpc = "rangeEnd" -> {<<"products", FALSE>>}
      [] OTHER -> {}

\* The map accesses of the statement worker w executes next.
JWorkerAccess(w) ==
    LET v == jthr[w].job.version
    IN  CASE jthr[w].pc = "storeVersion" -> {<<"products", FALSE>>, <<"versions", TRUE>>}
          [] jthr[w].pc = "readItems" -> {<<"items", v, FALSE>>}
          [] jthr[w].pc = "readSums" -> {<<"checksums", v, FALSE>>}
          [] jthr[w].pc = "storeSum" -> {<<"products", FALSE>>, <<"versions", FALSE>>, <<"checksums", v, TRUE>>}
          [] jthr[w].pc = "storeItem" -> {<<"products", FALSE>>, <<"versions", FALSE>>, <<"items", v, TRUE>>}
          [] OTHER -> {}

JAccess(t) == IF t = JOrch THEN JOrchAccess ELSE JWorkerAccess(t)

\* Two accesses are to the same map and one of them writes it.
JConflict(a, b) ==
    /\ Len(a) = Len(b)
    /\ SubSeq(a, 1, Len(a) - 1) = SubSeq(b, 1, Len(b) - 1)
    /\ a[Len(a)] \/ b[Len(b)]

\* Two goroutines are about to access the same map, one of them writing it,
\* and nothing orders the two accesses.
JRace ==
    \E t1, t2 \in {JOrch} \cup JWorkerIds :
        /\ t1 # t2
        /\ \E a \in JAccess(t1), b \in JAccess(t2) : JConflict(a, b)

\* The runtime detects a map that is read while it is written and stops the
\* process: "fatal error: concurrent map read and map write".
JFatal ==
    /\ UNCHANGED notJobs
    /\ ~jcrashed
    /\ JRace
    /\ jcrashed' = TRUE
    /\ UNCHANGED <<jpc, jworkers, jjobs, jclosed, jwg, jmutex, jthr, jctx, jtodo, jtargets, jdisk, jitemset, jhasSums, jversions, jitems, jsums, jstat>>

NextJobsLive ==
    \/ JOrchLock
    \/ JOrchStore
    \/ JOrchAdd1
    \/ JOrchSend1
    \/ JOrchLoopEnd1
    \/ JOrchWait1
    \/ JOrchTarget
    \/ JOrchNext
    \/ JOrchSend2
    \/ JOrchRangeEnd
    \/ JOrchReturn
    \/ \E w \in JWorkerIds : JWorkerTake(w)
    \/ \E w \in JWorkerIds : JWorkerClosed(w)
    \/ \E w \in JWorkerIds : JGetVersionOk(w)
    \/ \E w \in JWorkerIds : JGetVersionFail(w)
    \/ \E w \in JWorkerIds : JLock(w)
    \/ \E w \in JWorkerIds : JStoreVersion(w)
    \/ \E w \in JWorkerIds : JReadItems(w)
    \/ \E w \in JWorkerIds : JDiffOk(w)
    \/ \E w \in JWorkerIds : JDiffFail(w)
    \/ \E w \in JWorkerIds : JReadSums(w)
    \/ \E w \in JWorkerIds : JAppendOpen(w)
    \/ \E w \in JWorkerIds : JAppendWrite(w)
    \/ \E w \in JWorkerIds : JAppendFail(w)
    \/ \E w \in JWorkerIds : JStoreSum(w)
    \/ \E w \in JWorkerIds : JStoreItem(w)
    \/ \E w \in JWorkerIds : JJobDone(w)
    \/ JFatal

NextJobs ==
    \/ JCancel
    \/ \E w \in JWorkerIds : JWorkerCtxDone(w)
    \/ NextJobsLive

(***************************************************************************)
(* Claims about the job phases.                                            *)
(***************************************************************************)

\* C26: during both job phases no two goroutines access the same map of the
\* catalog (the products, a product's versions, a version's items or its
\* checksums) at the same time with one of them writing it.
C26_NoConflictingMapAccess == ~JRace

JPhase2 == jpc \in {"target", "next", "send2", "rangeEnd", "wait2", "returned"}

\* C27: once the orchestrator is in phase 2 or a delta job has been
\* submitted, a new-version job was submitted for every version directory
\* and each of them has finished, so the versions of the catalog no longer
\* change; and when buildProductCatalog has returned, every submitted job
\* has finished.
C27_PhasesAreJoined ==
    /\ (JPhase2 \/ \E j \in DOMAIN jstat : j.phase = 2) =>
          /\ JPhase2
          /\ \A v \in jdisk : NewVersionJobOf(v) \in DOMAIN jstat
          /\ \A j \in DOMAIN jstat : j.phase = 1 => jstat[j].fin
          /\ \A w \in JWorkerIds : jthr[w].job.phase # 1
    /\ jpc = "returned" =>
          /\ \A j \in DOMAIN jstat : jstat[j].fin
          /\ JRunning = {}
          /\ jjobs = <<>>

\* buildProductCatalog has returned after new-version jobs and a delta job
\* that stored its delta.
C27_Witness ==
    /\ jpc = "returned"
    /\ jversions = jdisk
    /\ \E j \in DOMAIN jstat : j.phase = 2 /\ jstat[j].fin /\ j.item \in jitems[j.version]
    /\ \E v \in jdisk : jitems[v] = {}

JSending == jpc \in {"send1", "send2"}

\* C29: with N = max(workers, 1), at most N jobs are executing and at most
\* N submitted jobs wait in the channel; while the channel holds N jobs the
\* orchestrator cannot complete its send, and as soon as it holds fewer the
\* send can complete.
C29_BoundedExecutingAndWaiting ==
    /\ Cardinality(JRunning) <= JCap
    /\ Len(jjobs) <= JCap
    /\ (JSending /\ Len(jjobs) = JCap) => ~ENABLED (JOrchSend1 \/ JOrchSend2)
    /\ (JSending /\ Len(jjobs) < JCap /\ ~jcrashed) => ENABLED (JOrchSend1 \/ JOrchSend2)

\* With workers = 0 the orchestrator is blocked on a send: the channel holds
\* one job and the one worker executes a job.
C29_Witness ==
    /\ JSending
    /\ Len(jjobs) = JCap
    /\ Cardinality(JRunning) = JCap
    /\ jworkers = 0
    /\ ~jctx

JAllExited == \A w \in JWorkerIds : jthr[w].pc = "exited"

\* C30: without cancellation buildProductCatalog returns, every job it
\* submitted was started exactly once and has finished, the channel is
\* closed and empty, and every worker exits and stays so.
C30_ReturnsAndWorkersExit ==
    <>[](/\ jpc = "returned"
         /\ jclosed
         /\ jjobs = <<>>
         /\ \A j \in DOMAIN jstat : jstat[j].ran = 1 /\ jstat[j].fin
         /\ JAllExited)

\* The delta jobs that have returned without putting their delta in Items:
\* the source was missing, the differ failed or was killed, or a later step
\* of the job failed.
JFailedDeltaJobs ==
    {j \in DOMAIN jstat : j.phase = 2 /\ jstat[j].fin /\ j.item \notin jitems[j.version]}

\* C35: a delta job that fails stays local. Stated for a build that is not
\* cancelled: once a delta job has returned without its delta, the build
\* still does not fail, and when it returns every other job that was
\* submitted has been carried out.
C35_FailedDeltaJobStaysLocal ==
    (JFailedDeltaJobs # {} /\ ~jctx) =>
        /\ ~jcrashed
        /\ jpc = "returned" => \A j \in DOMAIN jstat : jstat[j].ran = 1 /\ jstat[j].fin

\* C28: at no time do two jobs have the SHA256SUMS file of the same version
\* open for appending.
C28_OneAppendAtATime ==
    \A w1, w2 \in JWorkerIds :
        (w1 # w2 /\ jthr[w1].pc = "write" /\ jthr[w2].pc = "write")
            => jthr[w1].job.version # jthr[w2].job.version

(***************************************************************************)
(*              PART 9: the delta file's name and its delta_base           *)
(* cmd_build.go 791-803 builds the name of the delta file from the item's  *)
(* name and the source version's name; stream.GetItem (stream/index.go     *)
(* 597-616) splits that name at its dots to find the DeltaBase. Names are  *)
(* sequences of dot segments here, version names included: "2024.01" is    *)
(* <<"2024", "01">>.                                                       *)
(***************************************************************************)
MaxSegments == 2

NameSegments == {"v1", "2024", "01"}

\* Version directory names of up to MaxSegments dot segments.
SourceVerNames == UNION {[1..k -> NameSegments] : k \in 1..MaxSegments}

\* Names of qcow2 and squashfs items, some with a dot in the prefix.
DeltaItemNames ==
    {prefix \o ext : prefix \in {<<"disk">>, <<"rootfs">>, <<"my", "disk">>},
                     ext \in {ItemExtDiskKVM, ItemExtSquashfs}}

\* Lines 792-799: fmt.Sprintf("%s.%s.%s", prefix, sourceVerName, suffix); the
\* dots of the version name become separators of the file name.
DeltaFileName(item, sourceVer, ftype) ==
    SubSeq(item, 1, Len(item) - Len(Ext(item)))
        \o sourceVer
        \o (IF ftype = ItemTypeDiskKVM THEN <<"qcow2", "vcdiff">> ELSE <<"vcdiff">>)

InitNames ==
    /\ npc = "start"
    /\ nItemName \in DeltaItemNames
    /\ nSourceVer \in SourceVerNames
    /\ nDeltaName = <<>>
    /\ nDeltaBase = ""

\* Lines 792-799 of the delta job.
NameDelta ==
    /\ UNCHANGED notNames
    /\ npc = "start"
    /\ nDeltaName' = DeltaFileName(nItemName, nSourceVer,
                        IF Ext(nItemName) = ItemExtDiskKVM THEN ItemTypeDiskKVM ELSE ItemTypeSquashfs)
    /\ npc' = "named"
    /\ UNCHANGED <<nItemName, nSourceVer, nDeltaBase>>

\* Lines 840-842: stream.GetItem on the delta file in the target directory.
ReadDelta ==
    /\ UNCHANGED notNames
    /\ npc = "named"
    /\ LET dsk == [p \in {FirstProduct} |->
                    [v \in {"v2"} |-> [files |-> (nDeltaName :> "x"), sums |-> NoSums, config |-> "none"]]]
       IN  nDeltaBase' = GetItem(dsk, FirstProduct, "v2", nDeltaName, TRUE).item.deltaBase
    /\ npc' = "read"
    /\ UNCHANGED <<nItemName, nSourceVer, nDeltaName>>

NextNames == NameDelta \/ ReadDelta

\* C32: the delta item recorded for a generated delta has as delta_base the
\* name of the source version, whatever the version's name (dots included)
\* and whatever the item's file name.
C32_DeltaBaseIsSourceVersion ==
    npc = "read" => nDeltaBase = JoinDots(nSourceVer)

(***************************************************************************)
(*          PART 10: the catalog's products and their metadata             *)
(* cmd_build.go 636-750 and diffProducts (884-919) on products that carry  *)
(* their metadata. A product is [meta, versions, isNil]: meta stands for   *)
(* the aliases, requirements and OS name the scanner derived, versions is  *)
(* the Versions map (version name -> what is stored for it) and isNil      *)
(* tells a nil map from an empty one. Product.Versions is tagged           *)
(* json:"versions,omitempty" (stream/index.go 222): an empty map is        *)
(* not written and comes back nil.                                         *)
(***************************************************************************)
MergeProductIDs == {"p1", "p2"}

MergeVersionNames == {"v1", "v2"}

\* The metadata the scanner can derive for a product.
Metas == {"meta-A", "meta-B"}

NoProductsFile == [exists |-> FALSE, products |-> EmptyMap]

\* What stream.GetProducts can return: every product has at least one
\* version (stream/index.go 334-337) and a non-nil Versions map.
Scans ==
    LET product == [meta : Metas,
                    versions : UNION {[S -> {"scanned"}] : S \in (SUBSET MergeVersionNames) \ {{}}},
                    isNil : {FALSE}]
    IN  UNION {[S -> product] : S \in SUBSET MergeProductIDs}

\* json.Marshal of catalog.Products: "versions" is omitted when the map is empty.
MergeToJSON(products) ==
    [id \in DOMAIN products |->
        [meta |-> products[id].meta,
         hasVersions |-> DOMAIN products[id].versions # {},
         versions |-> products[id].versions]]

\* shared.ReadJSONFile: a product without "versions" gets a nil map.
MergeFromJSON(json) ==
    [id \in DOMAIN json |->
        [meta |-> json[id].meta,
         versions |-> json[id].versions,
         isNil |-> ~json[id].hasVersions]]

\* Lines 695-703 with the catalog's map retained whenever the product is in
\* the catalog, empty or not.
MergedVersionsAlwaysRetained(products, id) ==
    IF id \in DOMAIN products
    THEN [versions |-> products[id].versions, isNil |-> products[id].isNil]
    ELSE [versions |-> EmptyMap, isNil |-> FALSE]

\* Lines 695-703: the Versions map of tmp, the catalog's when it has
\* entries and a new map otherwise.
MergedVersions(products, id) ==
    IF id \in DOMAIN products /\ DOMAIN products[id].versions # {}
    THEN [versions |-> products[id].versions, isNil |-> products[id].isNil]
    ELSE [versions |-> EmptyMap, isNil |-> FALSE]

\* Lines 693-705 with the catalog's own product kept when there is one.
MergeProductKeepsOld(products, id, p) ==
    IF id \in DOMAIN products
    THEN [products[id] EXCEPT !.versions = MergedVersions(products, id).versions,
                              !.isNil = MergedVersions(products, id).isNil]
    ELSE [p EXCEPT !.versions = MergedVersions(products, id).versions,
                   !.isNil = MergedVersions(products, id).isNil]

\* Lines 693-705: tmp := p, tmp.Versions = ..., catalog.Products[id] = tmp.
MergeProduct(products, id, p) ==
    [p EXCEPT !.versions = MergedVersions(products, id).versions,
              !.isNil = MergedVersions(products, id).isNil]

InitMerge ==
    /\ mpc = "idle"
    /\ mfile = NoProductsFile
    /\ mscan = EmptyMap
    /\ mloaded = EmptyMap
    /\ madded = EmptyMap
    /\ mcatalog = EmptyMap
    /\ mjobs = {}
    /\ mrejected = {}
    /\ mpanic = FALSE
    /\ mbuilds = 0

\* Lines 636-706 and the submission of the jobs (708-750): the catalog is
\* read, the tree scanned, the products diffed and every new product merged
\* into the catalog.
MergeStart ==
    /\ UNCHANGED notMerge
    /\ mpc = "idle"
    /\ mbuilds < MaxBuilds
    /\ \E scan \in Scans :
        LET loaded == IF mfile.exists THEN MergeFromJSON(mfile.products) ELSE EmptyMap
            newProducts == diffProducts(loaded, scan)[2]
        IN  /\ mscan' = scan
            /\ mloaded' = loaded
            /\ madded' = newProducts
            /\ mcatalog' = [id \in DOMAIN loaded \cup DOMAIN newProducts |->
                              IF id \in DOMAIN newProducts
                              THEN MergeProduct(loaded, id, newProducts[id])
                              ELSE loaded[id]]
            /\ mjobs' = UNION {{<<id, name>> : name \in DOMAIN newProducts[id].versions} :
                                 id \in DOMAIN newProducts}
    /\ mpc' = "jobs"
    /\ mrejected' = {}
    /\ mbuilds' = mbuilds + 1
    /\ UNCHANGED <<mfile, mpanic>>

\* Lines 711-748, the version passes: catalog.Products[id].Versions[versionName]
\* = *version. The assignment panics on a nil map.
MergeJobAdds ==
    /\ UNCHANGED notMerge
    /\ mpc = "jobs"
    /\ \E j \in mjobs :
        /\ mjobs' = mjobs \ {j}
        /\ IF mcatalog[j[1]].isNil
           THEN /\ mpanic' = TRUE
                /\ mpc' = "dead"
                /\ UNCHANGED mcatalog
           ELSE /\ mcatalog' = [mcatalog EXCEPT ![j[1]].versions =
                                  [v \in DOMAIN @ \cup {j[2]} |-> IF v = j[2] THEN "hashed" ELSE @[v]]]
                /\ UNCHANGED <<mpanic, mpc>>
    /\ UNCHANGED <<mfile, mscan, mloaded, madded, mrejected, mbuilds>>

\* Lines 716-721, 736-739: GetVersion fails or a checksum does not match.
MergeJobRejects ==
    /\ UNCHANGED notMerge
    /\ mpc = "jobs"
    /\ \E j \in mjobs :
        /\ mjobs' = mjobs \ {j}
        /\ mrejected' = mrejected \cup {j}
    /\ UNCHANGED <<mpc, mfile, mscan, mloaded, madded, mcatalog, mpanic, mbuilds>>

\* Lines 754 and 877-879: the jobs are done and the catalog is returned.
MergeDone ==
    /\ UNCHANGED notMerge
    /\ mpc = "jobs"
    /\ mjobs = {}
    /\ mpc' = "built"
    /\ UNCHANGED <<mfile, mscan, mloaded, madded, mcatalog, mjobs, mrejected, mpanic, mbuilds>>

\* buildIndex writes the catalog to <stream>.json (cmd_build.go 523-530, 604-608).
MergePublish ==
    /\ UNCHANGED notMerge
    /\ mpc = "built"
    /\ mfile' = [exists |-> TRUE, products |-> MergeToJSON(mcatalog)]
    /\ mpc' = "idle"
    /\ UNCHANGED <<mscan, mloaded, madded, mcatalog, mjobs, mrejected, mpanic, mbuilds>>

NextMerge ==
    \/ MergeStart
    \/ MergeJobAdds
    \/ MergeJobRejects
    \/ MergeDone
    \/ MergePublish

\* The product was in the loaded catalog and the scan returns a version of
\* it the catalog does not have.
GainsVersion(id) ==
    /\ id \in DOMAIN mloaded
    /\ id \in DOMAIN mscan
    /\ \E v \in DOMAIN mscan[id].versions : v \notin DOMAIN mloaded[id].versions

\* C37: for a product of the catalog that gains a version on disk, the
\* 'added' entry of diffProducts carries the scanned metadata and exactly
\* the versions the catalog lacks, and the build gives the catalog's product
\* the scanned metadata while every version it had stays as it was.
C37_MetadataReplacedVersionsKept ==
    mpc \in {"jobs", "built"} =>
        \A id \in MergeProductIDs :
            GainsVersion(id) =>
                /\ id \in DOMAIN madded
                /\ madded[id].meta = mscan[id].meta
                /\ DOMAIN madded[id].versions
                       = DOMAIN mscan[id].versions \ DOMAIN mloaded[id].versions
                /\ mcatalog[id].meta = mscan[id].meta
                /\ \A v \in DOMAIN mloaded[id].versions :
                    /\ v \in DOMAIN mcatalog[id].versions
                    /\ mcatalog[id].versions[v] = mloaded[id].versions[v]

\* A build has returned a catalog in which a product that had a version
\* before and gained one has changed its metadata.
C37_Witness ==
    /\ mpc = "built"
    /\ \E id \in MergeProductIDs :
        /\ GainsVersion(id)
        /\ DOMAIN mloaded[id].versions # {}
        /\ mloaded[id].meta # mcatalog[id].meta
        /\ DOMAIN mloaded[id].versions # DOMAIN mcatalog[id].versions

\* The versions of the product the catalog had when it was loaded.
LoadedVersions(id) == IF id \in DOMAIN mloaded THEN DOMAIN mloaded[id].versions ELSE {}

\* C39: every product the scan returns is in the catalog the build returns,
\* with the versions it had plus the new ones whose job did not reject them:
\* none at all when the product is new and every version was rejected. No
\* build fails on the Versions map of a product that was published with
\* zero versions.
C39_AllRejectedProductKept ==
    /\ ~mpanic
    /\ mpc = "built" =>
        \A id \in DOMAIN mscan :
            /\ id \in DOMAIN mcatalog
            /\ DOMAIN mcatalog[id].versions =
                   LoadedVersions(id) \cup
                       {v \in DOMAIN mscan[id].versions \ LoadedVersions(id) : <<id, v>> \notin mrejected}

\* A build has added a version to a product that was published with zero
\* versions, all of them having been rejected in the build before.
C39_Witness ==
    /\ mpc = "built"
    /\ \E id \in DOMAIN mloaded :
        /\ mloaded[id].isNil
        /\ DOMAIN mcatalog[id].versions # {}

(***************************************************************************)
(* Idle values of the parts a specification does not move.                 *)
(***************************************************************************)
PublishIdle ==
    /\ metaFiles = [p \in MetaPaths |-> Absent]
    /\ pc = "off"
    /\ builds = 0
    /\ streamNames = <<>>
    /\ streamIdx = 0
    /\ catalog = {}
    /\ index = NewStreamIndex
    /\ replaces = <<>>
    /\ replIdx = 0
    /\ defers = {}
    /\ ctxDone = FALSE
    /\ renamed = <<>>
    /\ chmodded = {}
    /\ cancelEarly = FALSE
    /\ lastErr = "none"

PoolIdle ==
    /\ workers = 0
    /\ toSubmit = <<0, 0>>
    /\ orchPc = "off"
    /\ jobs = 0
    /\ jobsClosed = FALSE
    /\ wg = 0
    /\ workerPc = <<>>
    /\ poolCtxDone = FALSE

BuildOnlyIdle ==
    /\ catProducts = EmptyMap
    /\ bpc = "off"
    /\ jobs1 = {}
    /\ jobs2 = {}
    /\ nbuilds = 0
    /\ nuploads = 0
    /\ nremovals = 0
    /\ p1log = {}
    /\ generated = {}
    /\ differFailed = FALSE
    /\ settled = FALSE

BuildIdle ==
    /\ disk = [p \in ProductIDs |-> NoDirs]
    /\ published = NoCatalogFile
    /\ BuildOnlyIdle

PruneIdle ==
    /\ ppc = "off"
    /\ retain = 0
    /\ pcat = ToJSON(EmptyMap)
    /\ discardVersions = <<>>
    /\ discIdx = 1
    /\ tmpFile = NoTempFile
    /\ pruneErr = "none"
    /\ disk0 = [p \in ProductIDs |-> NoDirs]
    /\ published0 = NoCatalogFile
    /\ removeFailed = {}

RunIdle ==
    /\ rpc = "off"
    /\ dangling = FALSE
    /\ stale = {}
    /\ dtodo = {}
    /\ derr = "none"
    /\ catalogGz = GZip(NoCatalogFile)

ScanIdle ==
    /\ spc = "off"
    /\ sparts = [distro |-> "", release |-> "", architecture |-> "", variant |-> ""]
    /\ sdirs = EmptyMap
    /\ sinclude = FALSE
    /\ sproduct = NoProduct

SweepIdle ==
    /\ wpc = "off"
    /\ tree = [dirs |-> {}, files |-> {}]
    /\ baseDir = <<>>
    /\ rmFail = {}
    /\ swept = tree
    /\ sweepErr = ""

JobsIdle ==
    /\ jpc = "off"
    /\ jworkers = 0
    /\ jjobs = <<>>
    /\ jclosed = FALSE
    /\ jwg = 0
    /\ jmutex = JFree
    /\ jthr = <<>>
    /\ jctx = FALSE
    /\ jcrashed = FALSE
    /\ jtodo = <<>>
    /\ jtargets = <<>>
    /\ jdisk = {}
    /\ jitemset = {}
    /\ jhasSums = FALSE
    /\ jversions = {}
    /\ jitems = EmptyMap
    /\ jsums = EmptyMap
    /\ jstat = EmptyMap

NamesIdle ==
    /\ npc = "off"
    /\ nItemName = <<>>
    /\ nSourceVer = <<>>
    /\ nDeltaName = <<>>
    /\ nDeltaBase = ""

MergeIdle ==
    /\ mpc = "off"
    /\ mfile = NoProductsFile
    /\ mscan = EmptyMap
    /\ mloaded = EmptyMap
    /\ madded = EmptyMap
    /\ mcatalog = EmptyMap
    /\ mjobs = {}
    /\ mrejected = {}
    /\ mpanic = FALSE
    /\ mbuilds = 0

InitSpecPublish == InitPublish /\ PoolIdle /\ BuildIdle /\ PruneIdle /\ RunIdle /\ ScanIdle /\ SweepIdle /\ JobsIdle /\ NamesIdle /\ MergeIdle

SpecPublish == InitSpecPublish /\ [][NextPublish]_vars

InitSpecPool == InitPool /\ PublishIdle /\ BuildIdle /\ PruneIdle /\ RunIdle /\ ScanIdle /\ SweepIdle /\ JobsIdle /\ NamesIdle /\ MergeIdle

SpecPool == InitSpecPool /\ [][NextPool]_vars

InitSpec == InitBuild /\ PublishIdle /\ PoolIdle /\ PruneIdle /\ RunIdle /\ ScanIdle /\ SweepIdle /\ JobsIdle /\ NamesIdle /\ MergeIdle

Spec == InitSpec /\ [][NextBuild]_vars

InitSpecPrune == InitPrune /\ PublishIdle /\ PoolIdle /\ BuildOnlyIdle /\ RunIdle /\ ScanIdle /\ SweepIdle /\ JobsIdle /\ NamesIdle /\ MergeIdle

SpecPrune == InitSpecPrune /\ [][NextPrune]_vars

InitSpecPruneRun == InitRun /\ PublishIdle /\ PoolIdle /\ BuildOnlyIdle /\ ScanIdle /\ SweepIdle /\ JobsIdle /\ NamesIdle /\ MergeIdle

SpecPruneRun == InitSpecPruneRun /\ [][NextRun]_vars

InitSpecScan == InitScan /\ PublishIdle /\ PoolIdle /\ BuildIdle /\ PruneIdle /\ RunIdle /\ SweepIdle /\ JobsIdle /\ NamesIdle /\ MergeIdle

SpecScan == InitSpecScan /\ [][NextScan]_vars

InitSpecSweep == InitSweep /\ PublishIdle /\ PoolIdle /\ BuildIdle /\ PruneIdle /\ RunIdle /\ ScanIdle /\ JobsIdle /\ NamesIdle /\ MergeIdle

SpecSweep == InitSpecSweep /\ [][NextSweep]_vars

InitSpecJobs == InitJobs /\ PublishIdle /\ PoolIdle /\ BuildIdle /\ PruneIdle /\ RunIdle /\ ScanIdle /\ SweepIdle /\ NamesIdle /\ MergeIdle

SpecJobs == InitSpecJobs /\ [][NextJobs]_vars

\* The goroutines are scheduled fairly: a statement that stays enabled is
\* executed, and a worker that can receive from the channel again and again
\* does receive.
SpecJobsLive == InitSpecJobs /\ [][NextJobsLive]_vars /\ WF_vars(NextJobsLive)

InitSpecNames == InitNames /\ PublishIdle /\ PoolIdle /\ BuildIdle /\ PruneIdle /\ RunIdle /\ ScanIdle /\ SweepIdle /\ JobsIdle /\ MergeIdle

SpecNames == InitSpecNames /\ [][NextNames]_vars

InitSpecMerge == InitMerge /\ PublishIdle /\ PoolIdle /\ BuildIdle /\ PruneIdle /\ RunIdle /\ ScanIdle /\ SweepIdle /\ JobsIdle /\ NamesIdle

SpecMerge == InitSpecMerge /\ [][NextMerge]_vars

====
